---- MODULE Spec2Model ----
(***************************************************************************)
(* A model of gqlcli's schema-hint subsystem (pkg/describe.go,             *)
(* pkg/inline.go): the type-ref resolver, the SDL compiler, the Describer  *)
(* with its per-name cache, the error-type extractor and the in-process    *)
(* error presenter, together with the in-process executor that drives      *)
(* them.  Go strings are TLA+ strings; a decoded JSON value                *)
(* (interface{}) is a tagged record [t, v].                                *)
(***************************************************************************)
EXTENDS Naturals, Sequences, FiniteSets, TLC

VARIABLES
    cfg,        \* the process's configuration: which schema, and WithSchemaHints
    cache,      \* the Describer's cache: type name -> raw introspection payload
    last,       \* the last presenter or Execute call: its inputs and what it returned
    dcall,      \* the last Describe / DescribeWith call: its inputs and result
    execCount,  \* how often the Describer's executor ran, per requested name
    procs,      \* the concurrent Describe calls in flight, per goroutine
    disk,       \* the token store's directory on disk: whether it and its token file exist
    saved       \* the token handed to the last Save that succeeded, until a Clear

vars == <<cfg, cache, last, dcall, execCount, procs, disk, saved>>

\* ------------------------------------------------------------------------
\* Go strings
\* ------------------------------------------------------------------------

\* The printable ASCII characters in code order: 32 (space) to 95 (_), and
\* 97 (a) to 126 (~).  Code 96 cannot be written in a string literal and occurs in no
\* text of the model.
AsciiLow == " !\"#$%&'()*+,-./0123456789:;<=>?@ABCDEFGHIJKLMNOPQRSTUVWXYZ[\\]^_"
AsciiHigh == "abcdefghijklmnopqrstuvwxyz{|}~"

Char(s, i) == SubSeq(s, i, i)

\* The byte values of the characters: newline is 10.
AsciiCode ==
    [c \in {Char(AsciiLow, i) : i \in 1..Len(AsciiLow)}
           \cup {Char(AsciiHigh, i) : i \in 1..Len(AsciiHigh)} \cup {"\n"} |->
        IF c = "\n" THEN 10
        ELSE IF \E i \in 1..Len(AsciiLow) : Char(AsciiLow, i) = c
             THEN 31 + (CHOOSE i \in 1..Len(AsciiLow) : Char(AsciiLow, i) = c)
             ELSE 96 + (CHOOSE i \in 1..Len(AsciiHigh) : Char(AsciiHigh, i) = c)]

\* The byte value of a one-character string.
Ord(c) == AsciiCode[c]

\* The one-character string of a byte value in 32..126 other than 96.
Chr(o) == IF o <= 95 THEN Char(AsciiLow, o - 31) ELSE Char(AsciiHigh, o - 96)

\* Go's < on strings: bytewise lexicographic order.
StrLess(a, b) ==
    LET n == IF Len(a) < Len(b) THEN Len(a) ELSE Len(b)
        diffs == {i \in 1..n : Char(a, i) # Char(b, i)}
    IN IF diffs = {} THEN Len(a) < Len(b)
       ELSE LET d == CHOOSE i \in diffs : \A j \in diffs : i <= j
            IN Ord(Char(a, d)) < Ord(Char(b, d))

\* strings.ToLower on ASCII text.
RECURSIVE ToLower(_)
ToLower(s) ==
    IF Len(s) = 0 THEN ""
    ELSE LET c == Char(s, 1)
             o == Ord(c)
         IN (IF o >= 65 /\ o <= 90 THEN Chr(o + 32) ELSE c)
            \o ToLower(SubSeq(s, 2, Len(s)))

\* strings.Join
RECURSIVE Join(_, _)
Join(parts, sep) ==
    IF Len(parts) = 0 THEN ""
    ELSE IF Len(parts) = 1 THEN parts[1]
    ELSE parts[1] \o sep \o Join(Tail(parts), sep)

\* Whether character c occurs in the string cutset.
InCutset(c, cutset) == \E i \in 1..Len(cutset) : Char(cutset, i) = c

\* strings.Trim(s, cutset): drop leading and trailing characters of cutset.
RECURSIVE TrimLeft(_, _)
TrimLeft(s, cutset) ==
    IF Len(s) > 0 /\ InCutset(Char(s, 1), cutset)
    THEN TrimLeft(SubSeq(s, 2, Len(s)), cutset)
    ELSE s

RECURSIVE TrimRight(_, _)
TrimRight(s, cutset) ==
    IF Len(s) > 0 /\ InCutset(Char(s, Len(s)), cutset)
    THEN TrimRight(SubSeq(s, 1, Len(s) - 1), cutset)
    ELSE s

\* Fault variant of Trim: only the leading characters are dropped.
TrimLeading(s, cutset) == TrimLeft(s, cutset)

Trim(s, cutset) == TrimRight(TrimLeft(s, cutset), cutset)

\* The body of fmt's %q for printable ASCII: quote and backslash are escaped.
RECURSIVE EscapeQ(_)
EscapeQ(s) ==
    LET special == {i \in 1..Len(s) : Char(s, i) = "\"" \/ Char(s, i) = "\\"}
    IN IF special = {} THEN s
       ELSE LET d == CHOOSE i \in special : \A j \in special : i <= j
            IN SubSeq(s, 1, d - 1) \o "\\" \o Char(s, d) \o EscapeQ(SubSeq(s, d + 1, Len(s)))

\* fmt's %q verb.
Quote(s) == "\"" \o EscapeQ(s) \o "\""

\* ------------------------------------------------------------------------
\* Decoded JSON values (interface{} after json.Unmarshal)
\* ------------------------------------------------------------------------

JNull == [t |-> "null", v |-> ""]
JStr(s) == [t |-> "str", v |-> s]
JArr(a) == [t |-> "arr", v |-> a]
JObj(m) == [t |-> "obj", v |-> m]

\* m[k] on a Go map: nil when the key is absent.
Get(m, k) == IF k \in DOMAIN m THEN m[k] ELSE JNull

\* s, _ := x.(string)
AsString(x) == IF x.t = "str" THEN x.v ELSE ""

\* a, ok := x.([]interface{}); the zero slice when the assertion fails.
AsArray(x) == IF x.t = "arr" THEN x.v ELSE <<>>

\* ------------------------------------------------------------------------
\* Type-ref resolver and SDL compiler (pkg/describe.go)
\* ------------------------------------------------------------------------

RECURSIVE formatTypeRef(_)

\* Fault variant of formatTypeRef: the mark of a non-null wrapper is put in front.
formatBangFirst(typeData) ==
    IF typeData.t # "obj" THEN "Unknown"
    ELSE IF AsString(Get(typeData.v, "kind")) = "NON_NULL"
    THEN "!" \o formatTypeRef(Get(typeData.v, "ofType"))
    ELSE IF AsString(Get(typeData.v, "kind")) = "LIST"
    THEN "[" \o formatTypeRef(Get(typeData.v, "ofType")) \o "]"
    ELSE IF AsString(Get(typeData.v, "name")) # "" THEN AsString(Get(typeData.v, "name"))
    ELSE "Unknown"

\* formatTypeRef: the display text of one introspection type-reference node.
formatTypeRef(typeData) ==
    IF typeData.t # "obj" THEN "Unknown"
    ELSE LET tm == typeData.v
             kind == AsString(Get(tm, "kind"))
             name == AsString(Get(tm, "name"))
         IN IF kind = "NON_NULL" THEN formatTypeRef(Get(tm, "ofType")) \o "!"
            ELSE IF kind = "LIST" THEN "[" \o formatTypeRef(Get(tm, "ofType")) \o "]"
            ELSE IF name # "" THEN name
            ELSE "Unknown"

\* Fault variant of FieldLess: the fields are compared by name only.
FieldLessByName(fi, fj) == StrLess(AsString(Get(fi, "name")), AsString(Get(fj, "name")))

\* The less function sortFieldsByType hands to sort.Slice: rendered type text
\* first, field name second.
FieldLess(fi, fj) ==
    LET ti == formatTypeRef(Get(fi, "type"))
        tj == formatTypeRef(Get(fj, "type"))
    IN IF ti # tj THEN StrLess(ti, tj)
       ELSE StrLess(AsString(Get(fi, "name")), AsString(Get(fj, "name")))

\* sort.Slice's insertion of x into the sorted sequence out (slices of at most 12
\* elements are insertion-sorted; elements that compare equal keep their order).
RECURSIVE InsertField(_, _)
InsertField(out, x) ==
    IF Len(out) = 0 THEN <<x>>
    ELSE IF FieldLess(x, out[Len(out)])
         THEN Append(InsertField(SubSeq(out, 1, Len(out) - 1), x), out[Len(out)])
         ELSE Append(out, x)

RECURSIVE SortFields(_)
SortFields(out) ==
    IF Len(out) = 0 THEN <<>>
    ELSE InsertField(SortFields(SubSeq(out, 1, Len(out) - 1)), out[Len(out)])

\* The entries of a decoded array that are objects, as Go maps, in order.
RECURSIVE OnlyMaps(_)
OnlyMaps(arr) ==
    IF Len(arr) = 0 THEN <<>>
    ELSE (IF arr[1].t = "obj" THEN <<arr[1].v>> ELSE <<>>) \o OnlyMaps(Tail(arr))

\* Fault variant of sortFieldsByType: the fields in the order the engine lists them.
fieldsAsDeclared(fields) == OnlyMaps(fields)

\* sortFieldsByType: the object entries of fields, sorted by (type text, name).
sortFieldsByType(fields) == SortFields(OnlyMaps(fields))

\* The "name: Type" parts of a field's argument list, in introspection order.
RECURSIVE ArgParts(_)
ArgParts(args) ==
    IF Len(args) = 0 THEN <<>>
    ELSE <<AsString(Get(args[1], "name")) \o ": " \o formatTypeRef(Get(args[1], "type"))>>
         \o ArgParts(Tail(args))

\* Fault variant of formatSDLField: the argument list is never rendered.
formatSDLFieldPlain(field, showArgs) ==
    "  " \o AsString(Get(field, "name")) \o ": " \o formatTypeRef(Get(field, "type")) \o "\n"

\* formatSDLField: one field line.
formatSDLField(field, showArgs) ==
    LET fname == AsString(Get(field, "name"))
        ftype == formatTypeRef(Get(field, "type"))
        args == AsArray(Get(field, "args"))
    IN IF showArgs /\ Len(args) > 0
       THEN "  " \o fname \o "(" \o Join(ArgParts(OnlyMaps(args)), ", ") \o "): "
            \o ftype \o "\n"
       ELSE "  " \o fname \o ": " \o ftype \o "\n"

\* sdlKeyword: the declaration keyword of a kind.
sdlKeyword(kind) ==
    IF kind = "OBJECT" THEN "type"
    ELSE IF kind = "INPUT_OBJECT" THEN "input"
    ELSE IF kind = "INTERFACE" THEN "interface"
    ELSE IF kind = "UNION" THEN "union"
    ELSE ToLower(kind)

\* The non-empty names of the object entries of enumValues, in order.
RECURSIVE EnumParts(_)
EnumParts(vals) ==
    IF Len(vals) = 0 THEN <<>>
    ELSE LET n == IF vals[1].t = "obj" THEN AsString(Get(vals[1].v, "name")) ELSE ""
         IN (IF n # "" THEN <<n>> ELSE <<>>) \o EnumParts(Tail(vals))

\* printFields: the lines of the sorted fields, concatenated.
RECURSIVE FieldLines(_, _)
FieldLines(sorted, showArgs) ==
    IF Len(sorted) = 0 THEN ""
    ELSE formatSDLField(sorted[1], showArgs) \o FieldLines(Tail(sorted), showArgs)

printFields(fields, showArgs) == FieldLines(sortFieldsByType(fields), showArgs)

\* FormatTypeSDL: the compact SDL text of one type's introspection payload.
FormatTypeSDL(typeData, showArgs, noDescriptions) ==
    LET name == AsString(Get(typeData, "name"))
        description == AsString(Get(typeData, "description"))
        kind == AsString(Get(typeData, "kind"))
        head == IF ~noDescriptions /\ description # ""
                THEN "# " \o description \o "\n" ELSE ""
        fields == AsArray(Get(typeData, "fields"))
        inputFields == AsArray(Get(typeData, "inputFields"))
    IN IF kind = "SCALAR" THEN head \o "scalar " \o name \o "\n"
       ELSE IF kind = "ENUM"
       THEN head \o "enum " \o name \o " { "
            \o Join(EnumParts(AsArray(Get(typeData, "enumValues"))), " ") \o " }\n"
       ELSE head \o sdlKeyword(kind) \o " " \o name \o " {\n"
            \o (IF Len(fields) > 0 THEN printFields(fields, showArgs) ELSE "")
            \o (IF Len(inputFields) > 0 THEN printFields(inputFields, showArgs) ELSE "")
            \o "}\n"

\* The TypeRef fragment of the describe query: a node and four ofType levels.
TypeRefFragment ==
    "fragment TypeRef on __Type {\n  kind name\n  ofType { kind name ofType { kind name ofType { kind name ofType { kind name } } } }\n}"

\* buildDescribeQuery: the introspection query for one type name.
buildDescribeQuery(typeName) ==
    "query {\n  __type(name: " \o Quote(typeName) \o ") {\n    name kind description\n"
    \o "    fields { name type { ...TypeRef } args { name type { ...TypeRef } } }\n"
    \o "    inputFields { name type { ...TypeRef } }\n"
    \o "    enumValues { name }\n  }\n}\n" \o TypeRefFragment

\* ------------------------------------------------------------------------
\* The schema and the execution engine (the gqlgen server behind srv.ServeHTTP)
\* ------------------------------------------------------------------------

\* Introspection type-reference nodes.
Named(kind, name) == JObj([kind |-> JStr(kind), name |-> JStr(name), ofType |-> JNull])
NonNull(inner) == JObj([kind |-> JStr("NON_NULL"), name |-> JNull, ofType |-> inner])
ListOf(inner) == JObj([kind |-> JStr("LIST"), name |-> JNull, ofType |-> inner])

FieldJ(name, type, args) == JObj([name |-> JStr(name), type |-> type, args |-> JArr(args)])
ArgJ(name, type) == JObj([name |-> JStr(name), type |-> type])
InputFieldJ(name, type) == JObj([name |-> JStr(name), type |-> type])

ObjectTypeJ(name, description, fields) ==
    [name |-> JStr(name), kind |-> JStr("OBJECT"), description |-> description,
     fields |-> JArr(fields), inputFields |-> JNull, enumValues |-> JNull]

InputTypeJ(name, description, inputFields) ==
    [name |-> JStr(name), kind |-> JStr("INPUT_OBJECT"), description |-> description,
     fields |-> JNull, inputFields |-> JArr(inputFields), enumValues |-> JNull]

IDNN == NonNull(Named("SCALAR", "ID"))
StringNN == NonNull(Named("SCALAR", "String"))

\* The schemas a process can be started with: the example schema as declared, and
\* the same types declared in another field order and with descriptions.
SchemaIds == {1, 2}

BookFields(sid) ==
    IF sid = 1
    THEN <<FieldJ("id", IDNN, <<>>), FieldJ("title", StringNN, <<>>),
           FieldJ("author", NonNull(Named("OBJECT", "Author")), <<>>)>>
    ELSE <<FieldJ("title", StringNN, <<>>),
           FieldJ("author", NonNull(Named("OBJECT", "Author")), <<>>),
           FieldJ("id", IDNN, <<>>)>>

QueryFields ==
    <<FieldJ("books", NonNull(ListOf(NonNull(Named("OBJECT", "Book")))), <<>>),
      FieldJ("book", Named("OBJECT", "Book"), <<ArgJ("id", IDNN)>>)>>

MutationFields ==
    <<FieldJ("addBook", NonNull(Named("OBJECT", "Book")),
             <<ArgJ("input", NonNull(Named("INPUT_OBJECT", "AddBookInput")))>>)>>

AddBookInputFields ==
    <<InputFieldJ("title", StringNN), InputFieldJ("authorName", StringNN)>>

SchemaTypeNames == {"Query", "Mutation", "Book", "AddBookInput"}

\* The payload the engine returns for __type(name: n), n a type of the schema.
SchemaType(sid, n) ==
    LET descr(text) == IF sid = 1 THEN JNull ELSE JStr(text)
    IN IF n = "Query" THEN ObjectTypeJ("Query", JNull, QueryFields)
       ELSE IF n = "Mutation" THEN ObjectTypeJ("Mutation", JNull, MutationFields)
       ELSE IF n = "Book" THEN ObjectTypeJ("Book", descr("A book"), BookFields(sid))
       ELSE InputTypeJ("AddBookInput", descr("New book"), AddBookInputFields)

\* The engine's answer to an introspection query: the payload of the type the query
\* names, null when the schema has no such type.
DescribeQueries == [n \in SchemaTypeNames |-> buildDescribeQuery(n)]
SchemaTypes == [sid \in SchemaIds |-> [n \in SchemaTypeNames |-> SchemaType(sid, n)]]

EngineIntrospect(sid, query) ==
    LET hits == {n \in SchemaTypeNames : DescribeQueries[n] = query}
    IN IF hits = {} THEN JNull ELSE JObj(SchemaTypes[sid][CHOOSE n \in hits : TRUE])

\* Go error values: nil, or an error with its Error() text.
Nil == [isNil |-> TRUE, msg |-> ""]
Err(m) == [isNil |-> FALSE, msg |-> m]

\* What one run of a Describer's executor can return: the engine's answer, or one of
\* the failures the Describer has to survive.
Outcomes ==
    {"ok", "exec_error", "garbage", "json_null", "no_data", "data_null",
     "type_absent", "type_null"}

NoBody == [valid |-> FALSE, json |-> JNull]
Body(json) == [valid |-> TRUE, json |-> json]

\* The (raw, err) pair of one executor run on query under outcome o.
exec(sid, query, o) ==
    IF o = "ok"
    THEN [err |-> Nil, raw |-> Body(JObj([data |-> JObj("__type" :> EngineIntrospect(sid, query))]))]
    ELSE IF o = "exec_error" THEN [err |-> Err("failed to marshal request"), raw |-> NoBody]
    ELSE IF o = "garbage" THEN [err |-> Nil, raw |-> NoBody]
    ELSE IF o = "json_null" THEN [err |-> Nil, raw |-> Body(JNull)]
    ELSE IF o = "no_data" THEN [err |-> Nil, raw |-> Body(JObj([errors |-> JArr(<<>>)]))]
    ELSE IF o = "data_null" THEN [err |-> Nil, raw |-> Body(JObj([data |-> JNull]))]
    ELSE IF o = "type_absent" THEN [err |-> Nil, raw |-> Body(JObj([data |-> JObj(<<>>)]))]
    ELSE [err |-> Nil, raw |-> Body(JObj([data |-> JObj("__type" :> JNull)]))]

\* json.Unmarshal(raw, &result) with result a nil map[string]interface{}: JSON null
\* leaves the map nil, an object fills it, anything else is an error.
Unmarshal(raw) ==
    IF ~raw.valid THEN [err |-> Err("invalid character"), result |-> <<>>]
    ELSE IF raw.json.t = "null" THEN [err |-> Nil, result |-> <<>>]
    ELSE IF raw.json.t = "obj" THEN [err |-> Nil, result |-> raw.json.v]
    ELSE [err |-> Err("cannot unmarshal into Go value of type map"), result |-> <<>>]

\* ------------------------------------------------------------------------
\* Describer (pkg/describe.go)
\* ------------------------------------------------------------------------

\* Fault variant of Store: storing a key evicts every other entry.
StoreOnly(c, key, value) == key :> value

\* sync.Map.Store on the cache c.
Store(c, key, value) == [k \in DOMAIN c \cup {key} |-> IF k = key THEN value ELSE c[k]]

\* Fault variants of cacheLoad: a cache that never hits, and a cache that answers a
\* missing key with another key's entry.
cacheLoadMiss(c, key) == [ok |-> FALSE, value |-> <<>>]
cacheLoadAny(c, key) ==
    [ok |-> DOMAIN c # {},
     value |-> IF key \in DOMAIN c THEN c[key]
               ELSE IF DOMAIN c # {} THEN c[CHOOSE k \in DOMAIN c : TRUE]
               ELSE <<>>]

\* sync.Map.Load on the cache c.
cacheLoad(c, key) ==
    [ok |-> key \in DOMAIN c, value |-> IF key \in DOMAIN c THEN c[key] ELSE <<>>]

\* Fault variant of fetchMiss: the __type entry is taken as the payload without the
\* check that it is an object.
fetchMissUnchecked(c, typeName, res) ==
    IF ~res.err.isNil
    THEN [typeInfo |-> <<>>, err |-> Err("introspection failed: " \o res.err.msg),
          cache |-> c, ran |-> TRUE]
    ELSE IF ~Unmarshal(res.raw).err.isNil
    THEN [typeInfo |-> <<>>,
          err |-> Err("failed to parse introspection response: "
                      \o Unmarshal(res.raw).err.msg),
          cache |-> c, ran |-> TRUE]
    ELSE IF Get(Unmarshal(res.raw).result, "data").t # "obj"
    THEN [typeInfo |-> <<>>, err |-> Err("missing data in introspection response"),
          cache |-> c, ran |-> TRUE]
    ELSE LET typeInfo == Get(Get(Unmarshal(res.raw).result, "data").v, "__type")
             payload == IF typeInfo.t = "obj" THEN typeInfo.v ELSE <<>>
         IN [typeInfo |-> payload, err |-> Nil, cache |-> Store(c, typeName, payload),
             ran |-> TRUE]

\* Fault variant of fetchMiss: a failed run of the executor is remembered as an empty
\* payload.
fetchMissNegative(c, typeName, res) ==
    IF ~res.err.isNil
    THEN [typeInfo |-> <<>>, err |-> Err("introspection failed: " \o res.err.msg),
          cache |-> Store(c, typeName, <<>>), ran |-> TRUE]
    ELSE fetchMissUnchecked(c, typeName, res)

\* fetch after a cache miss: res is what d.exec returned.  Decodes the response and
\* stores the payload; a failure stores nothing.
fetchMiss(c, typeName, res) ==
    IF ~res.err.isNil
    THEN [typeInfo |-> <<>>, err |-> Err("introspection failed: " \o res.err.msg),
          cache |-> c, ran |-> TRUE]
    ELSE LET um == Unmarshal(res.raw)
         IN IF ~um.err.isNil
            THEN [typeInfo |-> <<>>,
                  err |-> Err("failed to parse introspection response: " \o um.err.msg),
                  cache |-> c, ran |-> TRUE]
            ELSE LET data == Get(um.result, "data")
                 IN IF data.t # "obj"
                    THEN [typeInfo |-> <<>>,
                          err |-> Err("missing data in introspection response"),
                          cache |-> c, ran |-> TRUE]
                    ELSE LET typeInfo == Get(data.v, "__type")
                         IN IF typeInfo.t # "obj"
                            THEN [typeInfo |-> <<>>,
                                  err |-> Err("type " \o Quote(typeName)
                                              \o " not found in schema"),
                                  cache |-> c, ran |-> TRUE]
                            ELSE [typeInfo |-> typeInfo.v, err |-> Nil,
                                  cache |-> Store(c, typeName, typeInfo.v), ran |-> TRUE]

\* fetch: the cached payload, or one run of d.exec on the describe query (ran) and
\* its decoding.  sid and o are the environment: the schema behind the executor and
\* what the run returns if it happens.
fetch(c, typeName, sid, o) ==
    IF cacheLoad(c, typeName).ok
    THEN [typeInfo |-> cacheLoad(c, typeName).value, err |-> Nil, cache |-> c,
          ran |-> FALSE]
    ELSE fetchMiss(c, typeName, exec(sid, buildDescribeQuery(typeName), o))

\* What Describe and DescribeWith return for fetch's result f: its error, or the
\* payload formatted.
Formatted(f, showArgs, noDescriptions) ==
    [sdl |-> IF f.err.isNil THEN FormatTypeSDL(f.typeInfo, showArgs, noDescriptions)
             ELSE "",
     err |-> f.err, cache |-> f.cache, ran |-> f.ran]

\* Fault variant of Describe: descriptions are not suppressed.
DescribeDocs(c, typeName, sid, o) ==
    Formatted(fetch(c, typeName, sid, o), FALSE, FALSE)

\* Describe: default formatting (no argument lists, no descriptions).
Describe(c, typeName, sid, o) ==
    Formatted(fetch(c, typeName, sid, o), FALSE, TRUE)

\* Fault variant of DescribeWith: the options are ignored.
DescribeWithDefaults(c, typeName, showArgs, showDescriptions, sid, o) ==
    Formatted(fetch(c, typeName, sid, o), FALSE, TRUE)

\* DescribeWith: explicit formatting options.
DescribeWith(c, typeName, showArgs, showDescriptions, sid, o) ==
    Formatted(fetch(c, typeName, sid, o), showArgs, ~showDescriptions)

\* ------------------------------------------------------------------------
\* Error-type extractor and schema-hint presenter (pkg/inline.go)
\* ------------------------------------------------------------------------

\* Pattern elements: a literal, or a greedy run [^c]+ of characters other than c
\* (cap: the run is the capture group).  Every run of the four patterns is followed
\* by a literal that starts with c, so the run ends at the first c and no shorter
\* run can match.
Lit(s) == [k |-> "lit", s |-> s, cap |-> FALSE]
Run(c) == [k |-> "run", s |-> c, cap |-> FALSE]
Cap(c) == [k |-> "run", s |-> c, cap |-> TRUE]

reOutputField == <<Lit("Cannot query field \""), Run("\""), Lit("\" on type \""), Cap("\""), Lit("\"")>>
reInputField == <<Lit("Field \""), Run("\""), Lit("\" is not defined by type \""), Cap("\""), Lit("\"")>>
reUnknownArg == <<Lit("Unknown argument \""), Run("\""), Lit("\" on field \""), Cap("."), Lit("."), Run("\""), Lit("\"")>>
reNeedsSubfield == <<Lit("Field \""), Run("\""), Lit("\" of type \""), Cap("\""), Lit("\" must have a selection of subfields")>>

HasPrefixAt(s, i, lit) ==
    i + Len(lit) - 1 <= Len(s) /\ SubSeq(s, i, i + Len(lit) - 1) = lit

\* The first index from i on that holds character c, Len(s) + 1 when there is none.
RunEnd(s, i, c) ==
    LET hits == {j \in i..Len(s) : Char(s, j) = c}
    IN IF hits = {} THEN Len(s) + 1
       ELSE CHOOSE j \in hits : \A k \in hits : j <= k

\* Match pattern pat against s from index i on; group is the capture so far.
RECURSIVE MatchAt(_, _, _, _)
MatchAt(s, i, pat, group) ==
    IF Len(pat) = 0 THEN [ok |-> TRUE, group |-> group, end |-> i]
    ELSE LET e == pat[1]
         IN IF e.k = "lit"
            THEN IF HasPrefixAt(s, i, e.s)
                 THEN MatchAt(s, i + Len(e.s), Tail(pat), group)
                 ELSE [ok |-> FALSE, group |-> "", end |-> i]
            ELSE LET j == RunEnd(s, i, e.s)
                 IN IF j = i THEN [ok |-> FALSE, group |-> "", end |-> i]
                    ELSE MatchAt(s, j, Tail(pat),
                                 IF e.cap THEN SubSeq(s, i, j - 1) ELSE group)

\* The leftmost index from i on at which pat matches, 0 when there is none.
FindFrom(s, i, pat) ==
    LET starts == {j \in i..Len(s) : MatchAt(s, j, pat, "").ok}
    IN IF starts = {} THEN 0
       ELSE CHOOSE j \in starts : \A k \in starts : j <= k

\* regexp.FindStringSubmatch: <<match, group>> of the leftmost match, <<>> for none.
FindStringSubmatch(re, s) ==
    LET i == FindFrom(s, 1, re)
    IN IF i = 0 THEN <<>>
       ELSE LET m == MatchAt(s, i, re, "")
            IN <<SubSeq(s, i, m.end - 1), m.group>>

\* Fault variant of extractTypeName: the input-field rule is tried before the
\* output-field rule.
extractInputFirst(message) ==
    IF Len(FindStringSubmatch(reInputField, message)) = 2
    THEN FindStringSubmatch(reInputField, message)[2]
    ELSE IF Len(FindStringSubmatch(reOutputField, message)) = 2
    THEN FindStringSubmatch(reOutputField, message)[2]
    ELSE IF Len(FindStringSubmatch(reUnknownArg, message)) = 2
    THEN FindStringSubmatch(reUnknownArg, message)[2]
    ELSE IF Len(FindStringSubmatch(reNeedsSubfield, message)) = 2
    THEN Trim(FindStringSubmatch(reNeedsSubfield, message)[2], "[]!")
    ELSE ""

\* The switch of the presenter: the type name an error message refers to, "" for none.
extractTypeName(message) ==
    IF Len(FindStringSubmatch(reOutputField, message)) = 2
    THEN FindStringSubmatch(reOutputField, message)[2]
    ELSE IF Len(FindStringSubmatch(reInputField, message)) = 2
    THEN FindStringSubmatch(reInputField, message)[2]
    ELSE IF Len(FindStringSubmatch(reUnknownArg, message)) = 2
    THEN FindStringSubmatch(reUnknownArg, message)[2]
    ELSE IF Len(FindStringSubmatch(reNeedsSubfield, message)) = 2
    THEN Trim(FindStringSubmatch(reNeedsSubfield, message)[2], "[]!")
    ELSE ""

\* Go maps that may be nil (gqlerror.Error.Extensions).
NilMap == [isNil |-> TRUE, m |-> <<>>]
MapOf(m) == [isNil |-> FALSE, m |-> m]

\* An error value handed to the presenter: a *gqlerror.Error, or an error of another
\* type, of which only the Error() text (Message) is visible.
GqlError(message, path, extensions) ==
    [isGql |-> TRUE, Message |-> message, Path |-> path, Extensions |-> extensions]
PlainError(text) ==
    [isGql |-> FALSE, Message |-> text, Path |-> <<>>, Extensions |-> NilMap]

\* Fault variant of asGqlError: every error is replaced by a new one that carries
\* only its text.
asFreshError(err) == GqlError(err.Message, <<>>, NilMap)

\* The first lines of the presenter: an error of another type becomes a new
\* *gqlerror.Error that carries its text.
asGqlError(err) == IF err.isGql THEN err ELSE GqlError(err.Message, <<>>, NilMap)

\* What the presenter reports about its Describe call (called: whether it was made).
HintOf(typeName, d) ==
    [typeName |-> typeName, called |-> TRUE, ran |-> d.ran, sdl |-> d.sdl, err |-> d.err]
NoHint(typeName) ==
    [typeName |-> typeName, called |-> FALSE, ran |-> FALSE, sdl |-> "", err |-> Nil]

\* Fault variant of attachHint: the hint is set whatever Describe returned.
attachAlways(gqlErr, typeName, d) ==
    [err |-> [gqlErr EXCEPT !.Extensions =
                 MapOf(Store(gqlErr.Extensions.m, "schemaHint", JStr(d.sdl)))],
     cache |-> d.cache, hint |-> HintOf(typeName, d)]

\* The presenter's use of Describe's result d: the hint is set only on success.
attachHint(gqlErr, typeName, d) ==
    IF d.err.isNil /\ d.sdl # ""
    THEN [err |-> [gqlErr EXCEPT !.Extensions =
                      MapOf(Store(gqlErr.Extensions.m, "schemaHint", JStr(d.sdl)))],
          cache |-> d.cache, hint |-> HintOf(typeName, d)]
    ELSE [err |-> gqlErr, cache |-> d.cache, hint |-> HintOf(typeName, d)]

\* The presenter once the type name is extracted: Describe is called only for a
\* non-empty name.
\* Fault variant of hintFor: Describe is called whether or not a type was extracted.
hintForAnyName(c, gqlErr, typeName, sid, o) ==
    attachHint(gqlErr, typeName, Describe(c, typeName, sid, o))

hintFor(c, gqlErr, typeName, sid, o) ==
    IF typeName # ""
    THEN attachHint(gqlErr, typeName, Describe(c, typeName, sid, o))
    ELSE [err |-> gqlErr, cache |-> c, hint |-> NoHint(typeName)]

\* The presenter makeSchemaHintPresenter returns, run on err with Describer cache c.
presenter(c, err, sid, o) ==
    hintFor(c, asGqlError(err), extractTypeName(asGqlError(err).Message), sid, o)

\* ------------------------------------------------------------------------
\* The engine's handling of one request (srv.ServeHTTP) and InlineExecutor.Execute
\* ------------------------------------------------------------------------

\* The operations sent to the executor, with the engine's parse of each: the root
\* type and field, the argument names, the field names of an input-object argument,
\* and the selected subfields.
QueryTexts ==
    {"{ books { id title } }", "{ books { id titl } }", "{ books { titl nam } }",
     "{ books }", "{ books(x: 1) { id } }", "{ bookz { id } }",
     "mutation { addBook(input: {titel: \"a\"}) { id } }", "{ books {"}

Op(parent, field, args, input, sel) ==
    [ok |-> TRUE, parent |-> parent, field |-> field, args |-> args, input |-> input,
     sel |-> sel]

ParseQuery(text) ==
    IF text = "{ books { id title } }" THEN Op("Query", "books", <<>>, <<>>, <<"id", "title">>)
    ELSE IF text = "{ books { id titl } }" THEN Op("Query", "books", <<>>, <<>>, <<"id", "titl">>)
    ELSE IF text = "{ books { titl nam } }" THEN Op("Query", "books", <<>>, <<>>, <<"titl", "nam">>)
    ELSE IF text = "{ books }" THEN Op("Query", "books", <<>>, <<>>, <<>>)
    ELSE IF text = "{ books(x: 1) { id } }" THEN Op("Query", "books", <<"x">>, <<>>, <<"id">>)
    ELSE IF text = "{ bookz { id } }" THEN Op("Query", "bookz", <<>>, <<>>, <<"id">>)
    ELSE IF text = "mutation { addBook(input: {titel: \"a\"}) { id } }"
    THEN Op("Mutation", "addBook", <<"input">>, <<"titel">>, <<"id">>)
    ELSE [ok |-> FALSE, parent |-> "", field |-> "", args |-> <<>>, input |-> <<>>,
          sel |-> <<>>]

\* The names of the object entries of a decoded fields or args array.
NamesIn(arr) == {AsString(Get(arr[i].v, "name")) : i \in 1..Len(arr)}
EntryNamed(arr, name) == arr[CHOOSE i \in 1..Len(arr) : AsString(Get(arr[i].v, "name")) = name].v

\* The named type at the bottom of a type reference.
RECURSIVE NamedTypeOf(_)
NamedTypeOf(ref) ==
    IF Get(ref.v, "ofType").t = "obj" THEN NamedTypeOf(Get(ref.v, "ofType"))
    ELSE AsString(Get(ref.v, "name"))

\* The members of the type named n that a selection or an input object may name.
MembersOf(sid, n) ==
    IF n \notin SchemaTypeNames THEN <<>>
    ELSE AsArray(Get(SchemaTypes[sid][n], "fields"))
         \o AsArray(Get(SchemaTypes[sid][n], "inputFields"))

\* One validation message for each name of names that is not in known.
RECURSIVE Unknowns(_, _, _, _)
Unknowns(names, known, before, after) ==
    IF Len(names) = 0 THEN <<>>
    ELSE (IF names[1] \in known THEN <<>> ELSE <<before \o names[1] \o after>>)
         \o Unknowns(Tail(names), known, before, after)

\* Fault variant of IntrospectionErrors: the engine does not know the __type field.
IntrospectionRejected(sid, text) == <<"Cannot query field \"__type\" on type \"Query\".">>

\* The engine's validation of a describe query: __type is a field of the query root
\* of every schema and its selection names only fields of __Type, __Field,
\* __InputValue and __EnumValue, so no error is raised whatever type is named.
IntrospectionErrors(sid, text) == <<>>

\* The engine's validation of an operation: the messages of its errors, in order.
EngineValidate(sid, text) ==
    LET q == ParseQuery(text)
        roots == MembersOf(sid, q.parent)
    IN IF HasPrefixAt(text, 1, "query {\n  __type(name: ")
       THEN IntrospectionErrors(sid, text)
       ELSE IF ~q.ok THEN <<"Expected Name, found <EOF>">>
       ELSE IF q.field \notin NamesIn(roots)
       THEN <<"Cannot query field \"" \o q.field \o "\" on type \"" \o q.parent \o "\".">>
       ELSE LET f == EntryNamed(roots, q.field)
                args == AsArray(Get(f, "args"))
                target == NamedTypeOf(Get(f, "type"))
                inputType == IF Len(args) > 0 THEN NamedTypeOf(Get(args[1].v, "type")) ELSE ""
            IN Unknowns(q.args, NamesIn(args), "Unknown argument \"",
                        "\" on field \"" \o q.parent \o "." \o q.field \o "\".")
               \o Unknowns(q.input, NamesIn(MembersOf(sid, inputType)), "Field \"",
                           "\" is not defined by type \"" \o inputType \o "\".")
               \o (IF Len(q.sel) = 0
                   THEN <<"Field \"" \o q.field \o "\" of type \""
                          \o formatTypeRef(Get(f, "type"))
                          \o "\" must have a selection of subfields.">>
                   ELSE <<>>)
               \o Unknowns(q.sel, NamesIn(MembersOf(sid, target)), "Cannot query field \"",
                           "\" on type \"" \o target \o "\".")

\* The error values the engine raises for the messages: *gqlerror.Error values that
\* carry the engine's error code.
RECURSIVE RaisedErrors(_)
RaisedErrors(messages) ==
    IF Len(messages) = 0 THEN <<>>
    ELSE <<GqlError(messages[1], <<>>,
                    MapOf([code |-> JStr("GRAPHQL_VALIDATION_FAILED")]))>>
         \o RaisedErrors(Tail(messages))

\* The engine hands each error to the registered presenter, in order; outs[i] is what
\* the i-th error's introspection run returns if it happens.
Presented(r, rest) ==
    [errs |-> <<r.err>> \o rest.errs, hints |-> <<r.hint>> \o rest.hints,
     cache |-> rest.cache]

RECURSIVE PresentAll(_, _, _, _)
RECURSIVE PresentRest(_, _, _, _)
PresentRest(r, errs, sid, outs) == Presented(r, PresentAll(r.cache, errs, sid, outs))

PresentAll(c, errs, sid, outs) ==
    IF Len(errs) = 0 THEN [errs |-> <<>>, hints |-> <<>>, cache |-> c]
    ELSE PresentRest(presenter(c, errs[1], sid, outs[1]), Tail(errs), sid, Tail(outs))

\* The engine's default presenter leaves a *gqlerror.Error as it is.
RECURSIVE NoHints(_)
NoHints(errs) ==
    IF Len(errs) = 0 THEN <<>>
    ELSE <<NoHint("")>> \o NoHints(Tail(errs))

\* The engine's JSON encoding of an error: path and extensions are omitted when empty.
RECURSIVE PathJSON(_)
PathJSON(path) == IF Len(path) = 0 THEN <<>> ELSE <<JStr(path[1])>> \o PathJSON(Tail(path))

ErrorJSON(e) ==
    LET keys == {"message"} \cup (IF Len(e.Path) > 0 THEN {"path"} ELSE {})
                \cup (IF DOMAIN e.Extensions.m # {} THEN {"extensions"} ELSE {})
    IN JObj([k \in keys |-> IF k = "message" THEN JStr(e.Message)
                            ELSE IF k = "path" THEN JArr(PathJSON(e.Path))
                            ELSE JObj(e.Extensions.m)])

RECURSIVE ErrorsJSON(_)
ErrorsJSON(errs) ==
    IF Len(errs) = 0 THEN <<>> ELSE <<ErrorJSON(errs[1])>> \o ErrorsJSON(Tail(errs))

\* The response the engine writes for the presented errors p of the raised ones.
Written(raised, p) ==
    [body |-> Body(JObj([errors |-> JArr(ErrorsJSON(p.errs)), data |-> JNull])),
     ins |-> raised, outs |-> p.errs, hints |-> p.hints, cache |-> p.cache]

\* The engine's answer to an operation whose validation raised the errors raised.
Respond(c, raised, schemaHints, sid, outs) ==
    IF Len(raised) = 0
    THEN [body |-> Body(JObj([data |-> JObj([books |-> JArr(<<>>)])])),
          ins |-> <<>>, outs |-> <<>>, hints |-> <<>>, cache |-> c]
    ELSE Written(raised,
                 IF schemaHints THEN PresentAll(c, raised, sid, outs)
                 ELSE [errs |-> raised, hints |-> NoHints(raised), cache |-> c])

\* NewInlineExecutor's wiring and srv.ServeHTTP: the engine validates the operation,
\* passes every error through the presenter (the schema-hint presenter when
\* schemaHints is set) and writes the response body.
ServeHTTP(c, text, schemaHints, sid, outs) ==
    Respond(c, RaisedErrors(EngineValidate(sid, text)), schemaHints, sid, outs)

\* The variables argument of Execute: nil, a map, or a map json.Marshal rejects.
VarKinds == {"nil", "map", "unmarshalable"}

\* A context.Context: nil, or a context that carries the request-scoped values listed.
NilCtx == [isNil |-> TRUE, values |-> <<>>]
Ctx(values) == [isNil |-> FALSE, values |-> values]
Contexts == {NilCtx, Ctx(<<>>), Ctx(<<"trace">>)}

\* The enrich field of an executor: none (a nil func), or a function that adds a
\* session value to the context it is given, one that returns a new background
\* context, or one that returns nil.
Enrichers == {"none", "session", "background", "nil"}
enrichWith(enrich, ctx) ==
    IF enrich = "session" THEN Ctx(ctx.values \o <<"session">>)
    ELSE IF enrich = "background" THEN Ctx(<<>>)
    ELSE NilCtx

\* The status codes the engine may pass to the recorder's WriteHeader; 0 when it
\* never calls it.
Statuses == {0, 200, 400, 422, 500}

\* Execute returning before the engine is reached.  events lists what ran.
Failed(c, msg, events) ==
    [raw |-> NoBody, err |-> Err(msg), ins |-> <<>>, outs |-> <<>>, hints |-> <<>>,
     cache |-> c, events |-> events, engineCtx |-> NilCtx, status |-> 0]

\* Fault variant of Served: a status other than 200 is turned into an error.
ServedWhenOK(r, ctx, events, status) ==
    IF status = 200
    THEN [raw |-> r.body, err |-> Nil, ins |-> r.ins, outs |-> r.outs, hints |-> r.hints,
          cache |-> r.cache, events |-> events, engineCtx |-> ctx, status |-> status]
    ELSE Failed(r.cache, "unexpected status", events)

\* What Execute returns once the engine has served the request, under the request's
\* context ctx: the recorder's bytes and a nil error; the recorded status is not read.
Served(r, ctx, events, status) ==
    [raw |-> r.body, err |-> Nil, ins |-> r.ins, outs |-> r.outs, hints |-> r.hints,
     cache |-> r.cache, events |-> events, engineCtx |-> ctx, status |-> status]

\* Execute from the marshalling of the body on, with the context ctx it has by then.
requested(c, ctx, events, text, variables, schemaHints, sid, status, outs) ==
    IF variables = "unmarshalable"
    THEN Failed(c, "failed to marshal request: json: unsupported type",
                events \o <<"Marshal">>)
    ELSE IF ctx.isNil
    THEN Failed(c, "failed to create request: net/http: nil Context",
                events \o <<"Marshal", "NewRequest">>)
    ELSE Served(ServeHTTP(c, text, schemaHints, sid, outs), ctx,
                events \o <<"Marshal", "NewRequest", "ServeHTTP">>, status)

\* Fault variant of Execute: the enricher runs but the caller's context is used.
ExecuteCallerCtx(c, ctx, enrich, text, variables, schemaHints, sid, status, outs) ==
    requested(c, ctx, IF enrich = "none" THEN <<>> ELSE <<"enrich">>,
              text, variables, schemaHints, sid, status, outs)

\* InlineExecutor.Execute: (raw, err), with the errors the engine presented on the way,
\* the steps that ran and the context the engine was given.
Execute(c, ctx, enrich, text, variables, schemaHints, sid, status, outs) ==
    IF enrich = "none"
    THEN requested(c, ctx, <<>>, text, variables, schemaHints, sid, status, outs)
    ELSE requested(c, enrichWith(enrich, ctx), <<"enrich">>, text, variables, schemaHints,
                   sid, status, outs)

\* ------------------------------------------------------------------------
\* Type references as the describe query returns them
\* ------------------------------------------------------------------------

\* The deepest nesting of list and non-null wrappers the model builds.
MaxWrap == 5

\* A type reference is a named type under a sequence of wrappers, outermost first:
\* "L" a list, "N" a non-null.
WrapSeqs == UNION {[1..k -> {"L", "N"}] : k \in 0..MaxWrap}
RefNames == {"Book", "ID"}

\* The introspection node tree of a type reference.
RECURSIVE BuildRef(_, _)
BuildRef(wraps, name) ==
    IF Len(wraps) = 0 THEN Named(IF name = "ID" THEN "SCALAR" ELSE "OBJECT", name)
    ELSE IF wraps[1] = "N" THEN NonNull(BuildRef(Tail(wraps), name))
    ELSE ListOf(BuildRef(Tail(wraps), name))

\* Fault variant of SelectTypeRef: the whole ofType chain is returned.
SelectWholeChain(ref, levels) == ref

\* The number of ofType levels the TypeRef fragment selects below a node.
FragmentLevels ==
    Cardinality({i \in 1..Len(TypeRefFragment) : HasPrefixAt(TypeRefFragment, i, "ofType")})

\* The engine's answer to the TypeRef fragment for the node ref: kind and name of
\* every node, and ofType as far as the fragment selects it.
RECURSIVE SelectTypeRef(_, _)
SelectTypeRef(ref, levels) ==
    IF ref.t # "obj" THEN ref
    ELSE IF levels = 0
    THEN JObj([kind |-> Get(ref.v, "kind"), name |-> Get(ref.v, "name")])
    ELSE JObj([kind |-> Get(ref.v, "kind"), name |-> Get(ref.v, "name"),
               ofType |-> SelectTypeRef(Get(ref.v, "ofType"), levels - 1)])

\* Values that are not well-formed type-reference nodes: nil, a string, an object
\* without keys, wrappers without ofType, a named kind without a name.
MalformedRefs ==
    {JNull, JStr("Book"), JObj(<<>>), JObj([kind |-> JStr("LIST")]),
     JObj([kind |-> JStr("NON_NULL"), name |-> JNull, ofType |-> JNull]),
     JObj([kind |-> JStr("OBJECT"), name |-> JNull]),
     JObj([kind |-> JStr("LIST"), ofType |-> JObj([name |-> JStr("")])])}

\* The engine's message for a field of a composite type selected without subfields.
NeedsSubfieldMessage(field, typeText) ==
    "Field \"" \o field \o "\" of type \"" \o typeText
    \o "\" must have a selection of subfields."

\* The most fields of a type payload handed to FormatTypeSDL on its own.
MaxFields == 3

\* The fields such a payload is built from, with distinct names: three of one type,
\* and types whose text starts with an upper-case letter, a bracket and a lower-case
\* letter.
PoolNames == {"id", "Zed", "name", "title", "books", "meta"}
PoolType(name) ==
    IF name = "id" THEN IDNN
    ELSE IF name = "books" THEN NonNull(ListOf(NonNull(Named("OBJECT", "Book"))))
    ELSE IF name = "meta" THEN Named("SCALAR", "json")
    ELSE StringNN

\* The field lists: every order of every choice of at most MaxFields fields.
FieldOrders ==
    {s \in UNION {[1..k -> PoolNames] : k \in 1..MaxFields} :
        \A i, j \in 1..Len(s) : s[i] = s[j] => i = j}

\* The payload of a type T whose fields (slot "fields") or inputFields are the fields
\* named, in that order.
FieldPayload(slot, names) ==
    IF slot = "fields"
    THEN ObjectTypeJ("T", JNull, [i \in 1..Len(names) |->
                                     FieldJ(names[i], PoolType(names[i]), <<>>)])
    ELSE InputTypeJ("T", JNull, [i \in 1..Len(names) |->
                                    InputFieldJ(names[i], PoolType(names[i]))])

\* The most arguments of the field of a payload formatted with options.
MaxArgs == 2

\* The arguments such a field takes, in every order of every choice of at most
\* MaxArgs of them.
ArgNames == {"id", "first", "after"}
ArgType(name) ==
    IF name = "id" THEN IDNN
    ELSE IF name = "first" THEN Named("SCALAR", "Int")
    ELSE Named("SCALAR", "String")
ArgOrders ==
    {s \in UNION {[1..k -> ArgNames] : k \in 0..MaxArgs} :
        \A i, j \in 1..Len(s) : s[i] = s[j] => i = j}

\* The description entry of a payload: null, empty or a text.
Descriptions == {JNull, JStr(""), JStr("A type")}

\* The payload of an object type T with the description given and one field f that
\* takes the arguments named, as the describe query returns it; with docs, the field
\* and its arguments carry description entries of their own.
OptionsPayload(description, argNames, docs) ==
    ObjectTypeJ("T", description,
       <<JObj([k \in {"name", "type", "args"} \cup (IF docs THEN {"description"} ELSE {}) |->
                 IF k = "name" THEN JStr("f")
                 ELSE IF k = "type" THEN StringNN
                 ELSE IF k = "description" THEN JStr("field doc")
                 ELSE JArr([i \in 1..Len(argNames) |->
                              JObj([a \in {"name", "type"}
                                          \cup (IF docs THEN {"description"} ELSE {}) |->
                                      IF a = "name" THEN JStr(argNames[i])
                                      ELSE IF a = "type" THEN ArgType(argNames[i])
                                      ELSE JStr("arg doc")])])])>>)

\* ------------------------------------------------------------------------
\* HTTP client (pkg/client.go) and the CLI's error handler (pkg/cli.go)
\* ------------------------------------------------------------------------

\* The configured endpoint URLs the model tries.
Urls ==
    {"", "localhost:8080/graphql", "ftp://h/graphql", "HTTP://h/graphql",
     "see http://h/graphql", "http://h/graphql", "https://h/graphql"}

\* The execution modes a caller can pass.
ExecutionModes == {"http", "inline"}

\* What comes back from the endpoint: no connection, a body that is not JSON, JSON
\* null, a JSON array, the answer of a GraphQL engine for the schema (without or with
\* schema hints of its own), or an object whose errors entry is null or empty.
Replies ==
    {"refused", "html", "null", "array", "engine", "hinting_engine", "errors_null",
     "errors_empty"}

\* The query of HTTPClient.Introspect, by its head: the full text goes on with the
\* fragments FullType, InputValue and TypeRef.
IntrospectionQuery == "query IntrospectionQuery { __schema { types { ...FullType } } }"

\* The engine's answer to it: every type of the schema with its kind, name and
\* description.
TypeJ(kind, name, description) ==
    JObj([kind |-> JStr(kind), name |-> JStr(name), description |-> description])
IntrospectionTypes(sid) ==
    <<TypeJ("OBJECT", "Query", JNull),
      TypeJ("OBJECT", "Book", SchemaTypes[sid]["Book"].description),
      TypeJ("INPUT_OBJECT", "AddBookInput", SchemaTypes[sid]["AddBookInput"].description),
      TypeJ("SCALAR", "String", JNull),
      TypeJ("OBJECT", "Mutation", JNull),
      TypeJ("SCALAR", "Boolean", JNull)>>
IntrospectionAnswer(sid) ==
    JObj([data |-> JObj("__schema" :> JObj([types |-> JArr(IntrospectionTypes(sid))]))])

ServerBody(sid, query, reply) ==
    IF reply = "html" THEN NoBody
    ELSE IF reply = "null" THEN Body(JNull)
    ELSE IF reply = "array" THEN Body(JArr(<<>>))
    ELSE IF reply = "errors_null" THEN Body(JObj([errors |-> JNull, data |-> JNull]))
    ELSE IF reply = "errors_empty"
    THEN Body(JObj([errors |-> JArr(<<>>), data |-> JObj([books |-> JArr(<<>>)])]))
    ELSE IF query = IntrospectionQuery THEN Body(IntrospectionAnswer(sid))
    ELSE ServeHTTP(<<>>, query, reply = "hinting_engine", sid, <<"ok", "ok">>).body

\* fmt.Errorf: an error with the format msg and the values args; chain lists the dynamic types errors.As
\* visits, the error itself and then the cause it wraps with %w, if any.
Errorf(msg, args, cause) ==
    [isNil |-> FALSE, msg |-> msg, args |-> args,
     chain |-> IF cause = "" THEN <<"*errors.errorString">> ELSE <<"*fmt.wrapError", cause>>]
NoError == [isNil |-> TRUE, msg |-> "", args |-> <<>>, chain |-> <<>>]

\* Fault variant of decoded: only a non-empty errors array counts as errors.
decodedNonEmpty(query, u, sent) ==
    IF ~u.err.isNil
    THEN [payload |-> NilMap, err |-> Errorf("failed to parse response", <<>>, "json error"),
          sent |-> sent]
    ELSE IF "errors" \in DOMAIN u.result /\ Len(AsArray(u.result["errors"])) > 0
    THEN [payload |-> NilMap,
          err |-> Errorf("%s%s", <<u.result["errors"], JStr(query)>>, ""),
          sent |-> sent]
    ELSE [payload |-> IF u.result = <<>> THEN NilMap ELSE MapOf(u.result), err |-> NoError,
          sent |-> sent]

\* The end of executeOperation, on the outcome u of json.Unmarshal of the body.  The
\* error text for a response with errors is formatGraphQLErrors(errors) followed by
\* the formatted query; the model keeps the two values the text is built from.
decoded(query, u, sent) ==
    IF ~u.err.isNil
    THEN [payload |-> NilMap, err |-> Errorf("failed to parse response", <<>>, "json error"),
          sent |-> sent]
    ELSE IF "errors" \in DOMAIN u.result
    THEN [payload |-> NilMap,
          err |-> Errorf("%s%s", <<u.result["errors"], JStr(query)>>, ""),
          sent |-> sent]
    ELSE [payload |-> IF u.result = <<>> THEN NilMap ELSE MapOf(u.result), err |-> NoError,
          sent |-> sent]

\* executeOperation once the URL is accepted: the request is posted and the answer
\* decoded.  sent lists the requests that went out, each with the Query and the
\* Variables of its GraphQLRequest.
postAndDecode(sid, url, query, variables, reply) ==
    IF reply = "refused"
    THEN [payload |-> NilMap, err |-> Errorf("request failed", <<>>, "*url.Error"),
          sent |-> <<[url |-> url, query |-> query, variables |-> variables]>>]
    ELSE decoded(query, Unmarshal(ServerBody(sid, query, reply)),
                 <<[url |-> url, query |-> query, variables |-> variables]>>)

\* Fault variant of executeOperation: the URL is used as configured.
executeUnvalidated(sid, url, query, variables, reply) ==
    postAndDecode(sid, url, query, variables, reply)

\* HTTPClient.executeOperation against an endpoint that serves schema sid.
executeOperation(sid, url, query, variables, reply) ==
    IF url = ""
    THEN [payload |-> NilMap, err |-> Errorf("GraphQL URL is not configured", <<>>, ""),
          sent |-> <<>>]
    ELSE IF ~HasPrefixAt(url, 1, "http://") /\ ~HasPrefixAt(url, 1, "https://")
    THEN [payload |-> NilMap, err |-> Errorf("URL must start with http:// or https://", <<>>, ""),
          sent |-> <<>>]
    ELSE postAndDecode(sid, url, query, variables, reply)

\* HTTPClient.Execute.
HTTPExecute(mode, sid, url, query, variables, reply) ==
    IF mode # "http"
    THEN [payload |-> NilMap, err |-> Errorf("HTTP client only supports ExecutionModeHTTP", <<>>, ""),
          sent |-> <<>>]
    ELSE executeOperation(sid, url, query, variables, reply)

\* The Variables of the options of a call: nil, empty, or with entries, one of them
\* under the key input.
OptionVariables ==
    {NilMap, MapOf(<<>>), MapOf([id |-> JStr("1")]),
     MapOf([id |-> JStr("1"), input |-> JObj([title |-> JStr("old")])])}

\* The Input of MutationOptions: nil, or a decoded JSON value.
Inputs == {JNull, JObj([title |-> JStr("a")]), JObj(<<>>), JStr("a")}

\* Fault variant of ExecuteMutation: the input replaces the variables.
ExecuteMutationInputOnly(mode, sid, url, mutation, variables, input, reply) ==
    IF mode # "http"
    THEN [payload |-> NilMap, err |-> Errorf("HTTP client only supports ExecutionModeHTTP", <<>>, ""),
          sent |-> <<>>]
    ELSE IF input.t # "null"
    THEN executeOperation(sid, url, mutation, MapOf([input |-> input]), reply)
    ELSE executeOperation(sid, url, mutation, variables, reply)

\* HTTPClient.ExecuteMutation: a non-nil Input is stored under the key input of the
\* variables, which are created when nil.
ExecuteMutation(mode, sid, url, mutation, variables, input, reply) ==
    IF mode # "http"
    THEN [payload |-> NilMap, err |-> Errorf("HTTP client only supports ExecutionModeHTTP", <<>>, ""),
          sent |-> <<>>]
    ELSE IF input.t # "null"
    THEN executeOperation(sid, url, mutation,
                          MapOf([k \in DOMAIN variables.m \cup {"input"} |->
                                   IF k = "input" THEN input ELSE variables.m[k]]),
                          reply)
    ELSE executeOperation(sid, url, mutation, variables, reply)

\* CLIBuilder.handleError: errors.As looks for a *GraphQLResponseError in the chain;
\* only then is a response printed and the error replaced by a silent exit.
handleError(err) ==
    IF \E i \in 1..Len(err.chain) : err.chain[i] = "*GraphQLResponseError"
    THEN [printsResponse |-> TRUE, returns |-> "cli.Exit(1)"]
    ELSE [printsResponse |-> FALSE, returns |-> "err"]

\* ------------------------------------------------------------------------
\* State machines
\* ------------------------------------------------------------------------

\* The most executor runs per name the model follows.
MaxExec == 2

\* The goroutines that call one Describer concurrently.
NumProcs == 2
Procs == 1..NumProcs

\* The type names handed to Describe and DescribeWith: three of the schema (one whose
\* fields take arguments), one not.
DescribeNames == {"Book", "AddBookInput", "Query", "Nope"}

\* The names concurrent callers ask for, and what their executor runs can return.
ConcNames == {"Book", "AddBookInput"}
ConcOutcomes == {"ok", "exec_error", "type_null"}

\* Error messages handed to the presenter: one per extractor rule, one naming a type
\* the schema lacks, two that match no rule, and three that match two rules each.
MsgOutputField == "Cannot query field \"titl\" on type \"Book\"."
MsgInputField == "Field \"titel\" is not defined by type \"AddBookInput\"."
MsgUnknownArg == "Unknown argument \"x\" on field \"Query.books\"."
MsgNeedsSubfield == "Field \"books\" of type \"[Book!]!\" must have a selection of subfields."
MsgNoSuchType == "Cannot query field \"x\" on type \"Nope\"."
MsgInputThenOutput == "Field \"a\" is not defined by type \"AddBookInput\"; Cannot query field \"b\" on type \"Book\"."
MsgSubfieldThenArg == "Field \"q\" of type \"[Book!]!\" must have a selection of subfields; Unknown argument \"x\" on field \"Query.books\"."
MsgArgThenInput == "Unknown argument \"x\" on field \"Query.books\"; Field \"a\" is not defined by type \"AddBookInput\"."

Messages ==
    {MsgOutputField, MsgInputField, MsgUnknownArg, MsgNeedsSubfield, MsgNoSuchType,
     MsgInputThenOutput, MsgSubfieldThenArg, MsgArgThenInput,
     "introspection disabled", "Cannot query field titl on type Book"}

\* The Extensions an incoming error can carry: nil, empty, the engine's code, or the
\* code together with a schemaHint that is already there.
ServerHint == "type Book { id: ID! }\n"
ExtOf(kind) ==
    IF kind = "nil" THEN NilMap
    ELSE IF kind = "empty" THEN MapOf(<<>>)
    ELSE IF kind = "code" THEN MapOf([code |-> JStr("GRAPHQL_VALIDATION_FAILED")])
    ELSE MapOf([code |-> JStr("GRAPHQL_VALIDATION_FAILED"), schemaHint |-> JStr(ServerHint)])

\* The shapes of the error values handed to the presenter: an error of another type,
\* or a *gqlerror.Error with or without a path and with each kind of Extensions.
ErrShapes ==
    {[isGql |-> FALSE, path |-> <<>>, ext |-> "nil"],
     [isGql |-> TRUE, path |-> <<>>, ext |-> "nil"],
     [isGql |-> TRUE, path |-> <<"books">>, ext |-> "nil"],
     [isGql |-> TRUE, path |-> <<"books">>, ext |-> "empty"],
     [isGql |-> TRUE, path |-> <<>>, ext |-> "code"],
     [isGql |-> TRUE, path |-> <<"books">>, ext |-> "hinted"]}

ErrorOf(shape, msg) ==
    IF shape.isGql THEN GqlError(msg, shape.path, ExtOf(shape.ext)) ELSE PlainError(msg)

\* ------------------------------------------------------------------------
\* Output formatters and the types command of the HTTP CLI
\* ------------------------------------------------------------------------

\* The keys of a Go map in the order encoding/json writes them: sorted.
RECURSIVE SortedKeys(_)
SortedKeys(keys) ==
    IF keys = {} THEN <<>>
    ELSE LET k == CHOOSE a \in keys : \A b \in keys \ {a} : StrLess(a, b)
         IN <<k>> \o SortedKeys(keys \ {k})

\* json.Marshal of a decoded value whose strings are printable ASCII.
RECURSIVE Marshal(_)
Marshal(v) ==
    IF v.t = "null" THEN "null"
    ELSE IF v.t = "str" THEN Quote(v.v)
    ELSE IF v.t = "arr"
    THEN "[" \o Join([i \in 1..Len(v.v) |-> Marshal(v.v[i])], ",") \o "]"
    ELSE LET keys == SortedKeys(DOMAIN v.v)
         IN "{" \o Join([i \in 1..Len(keys) |->
                            Quote(keys[i]) \o ":" \o Marshal(v.v[keys[i]])], ",") \o "}"

\* stripNullValues
RECURSIVE stripNullValues(_)
stripNullValues(v) ==
    IF v.t = "obj"
    THEN JObj([k \in {k \in DOMAIN v.v : v.v[k].t # "null"} |-> stripNullValues(v.v[k])])
    ELSE IF v.t = "arr"
    THEN JArr([i \in 1..Len(v.v) |-> stripNullValues(v.v[i])])
    ELSE v

\* JSONFormatter.Format with pretty unset.
JSONFormat(data) == [output |-> Marshal(stripNullValues(JObj(data))), err |-> NoError]

\* CompactFormatter.Format
CompactFormat(data) == [output |-> Marshal(JObj(data)), err |-> NoError]

\* DefaultFormatterRegistry.Get followed by Format, for the formatters json and
\* compact and for a name that is not registered.
Formats == {"compact", "json", "yaml"}
Format(format, data) ==
    IF format = "compact" THEN CompactFormat(data)
    ELSE IF format = "json" THEN JSONFormat(data)
    ELSE [output |-> "", err |-> Errorf("formatter '%s' not found", <<JStr(format)>>, "")]

\* The results handed to a formatter.
Results ==
    {[data |-> JObj([book |-> JObj([id |-> JStr("1"), title |-> JNull])])],
     [data |-> JObj([books |-> JArr(<<JObj([id |-> JStr("1"), author |-> JNull]),
                                      JObj([id |-> JStr("2"),
                                            author |-> JObj([name |-> JStr("Ann")])])>>)])],
     [data |-> JObj([book |-> JObj([id |-> JStr("1"), title |-> JStr("Dune")])])],
     [data |-> JObj([titles |-> JArr(<<JStr("Dune"), JNull>>)])],
     [data |-> JNull],
     [data |-> JObj(<<>>), extensions |-> JNull],
     <<>>}

\* HTTPClient.Introspect
Introspect(sid, url, reply) == executeOperation(sid, url, IntrospectionQuery, NilMap, reply)

\* The action of the types command, from the result of Introspect on.
listTypes(result, format) ==
    LET data == Get(result.payload.m, "data")
        schema == IF data.t = "obj" THEN Get(data.v, "__schema") ELSE JNull
        typesList == IF schema.t = "obj" THEN Get(schema.v, "types") ELSE JNull
    IN IF ~result.err.isNil THEN [output |-> "", err |-> result.err]
       ELSE IF data.t # "obj"
       THEN [output |-> "", err |-> Errorf("invalid introspection response", <<>>, "")]
       ELSE IF schema.t # "obj"
       THEN [output |-> "", err |-> Errorf("invalid schema in response", <<>>, "")]
       ELSE IF typesList.t # "arr"
       THEN [output |-> "", err |-> Errorf("invalid types in schema", <<>>, "")]
       ELSE Format(format, [types |-> typesList])

\* The action of GetTypesCommand: the flags filter and kind are declared and their
\* values are read nowhere.
GetTypesCommand(sid, url, filter, kind, format, reply) ==
    listTypes(Introspect(sid, url, reply), format)

\* The values of the flags --filter and --kind.
Filters == {"", "book", "Book", "Zed"}
Kinds == {"", "OBJECT", "SCALAR", "ENUM"}

\* No token directory and no token file; no Save so far.
NoDisk == [dir |-> FALSE, file |-> FALSE, data |-> ""]
NoToken == [has |-> FALSE, token |-> ""]

NoCall ==
    [op |-> "none", text |-> "", variables |-> "nil", ins |-> <<>>, outs |-> <<>>,
     hints |-> <<>>, raw |-> NoBody, err |-> Nil]

NoDescribe ==
    [op |-> "none", name |-> "", showArgs |-> FALSE, showDescriptions |-> FALSE,
     sdl |-> "", err |-> Nil, ran |-> FALSE, wasCached |-> FALSE, o |-> "none"]

\* A goroutine's position in Describe: idle, missed (cache.Load found nothing), ran
\* (d.exec has returned res), done (Describe has returned sdl, err).
NoRun == [err |-> Nil, raw |-> NoBody]
IdleProc == [pc |-> "idle", name |-> "", res |-> NoRun, sdl |-> "", err |-> Nil]

\* What the environment can answer to the introspection run for typeName: it is
\* consulted only when the Describer is asked for a name it has not cached.
Answers(c, typeName) ==
    IF typeName # "" /\ ~cacheLoad(c, typeName).ok THEN Outcomes ELSE {"ok"}

\* --- the in-process executor with its schema-hint presenter, one call at a time ---

Init ==
    /\ cfg \in [sid : SchemaIds, schemaHints : BOOLEAN]
    /\ cache = <<>>
    /\ last = NoCall
    /\ dcall = NoDescribe
    /\ execCount = [n \in DescribeNames |-> 0]
    /\ procs = [p \in Procs |-> IdleProc]
    /\ disk = NoDisk
    /\ saved = NoToken

\* The engine hands one error to the schema-hint presenter.
Presenting(err, r) ==
    /\ cache' = r.cache
    /\ last' = [op |-> "present", text |-> "", variables |-> "nil", ins |-> <<err>>,
                outs |-> <<r.err>>, hints |-> <<r.hint>>, raw |-> NoBody, err |-> Nil]

PresentError ==
    /\ last.op = "none"
    /\ cfg.schemaHints
    /\ \E shape \in ErrShapes, msg \in Messages :
          \E o \in Answers(cache, extractTypeName(msg)) :
             Presenting(ErrorOf(shape, msg),
                        presenter(cache, ErrorOf(shape, msg), cfg.sid, o))
    /\ UNCHANGED <<disk, saved, cfg, dcall, execCount, procs>>

\* A caller runs one operation through InlineExecutor.Execute.
Executing(text, variables, r) ==
    /\ cache' = r.cache
    /\ last' = [op |-> "execute", text |-> text, variables |-> variables, ins |-> r.ins,
                outs |-> r.outs, hints |-> r.hints, raw |-> r.raw, err |-> r.err]

\* How many errors of the operation reach the schema-hint presenter.
HookRuns(text, variables) ==
    IF variables = "unmarshalable" \/ ~cfg.schemaHints THEN 0
    ELSE Len(EngineValidate(cfg.sid, text))

ExecuteOp ==
    /\ last.op = "none"
    /\ \E text \in QueryTexts, variables \in VarKinds :
          \E o1 \in (IF HookRuns(text, variables) >= 1 THEN Outcomes ELSE {"ok"}),
             o2 \in (IF HookRuns(text, variables) >= 2 THEN Outcomes ELSE {"ok"}) :
             Executing(text, variables,
                       Execute(cache, Ctx(<<>>), "none", text, variables, cfg.schemaHints,
                               cfg.sid, 200, <<o1, o2>>))
    /\ UNCHANGED <<disk, saved, cfg, dcall, execCount, procs>>

\* The caller has taken the result; the next call can start.
Return ==
    /\ last.op # "none"
    /\ last' = NoCall
    /\ UNCHANGED <<disk, saved, cfg, cache, dcall, execCount, procs>>

Next == PresentError \/ ExecuteOp \/ Return

Spec == Init /\ [][Next]_vars

\* --- one Describer (NewDescriber), called sequentially ---

DescInit ==
    /\ cfg \in [sid : SchemaIds, schemaHints : {FALSE}]
    /\ cache = <<>>
    /\ last = NoCall
    /\ dcall = NoDescribe
    /\ execCount = [n \in DescribeNames |-> 0]
    /\ procs = [p \in Procs |-> IdleProc]
    /\ disk = NoDisk
    /\ saved = NoToken

\* One call of the Describer: r is what it returned.  wasCached records whether the
\* name was cached when the call was made, o what the executor answered when it ran.
Describing(op, name, showArgs, showDescriptions, r, o) ==
    /\ r.ran => execCount[name] < MaxExec
    /\ cache' = r.cache
    /\ execCount' = IF r.ran THEN [execCount EXCEPT ![name] = @ + 1] ELSE execCount
    /\ dcall' = [op |-> op, name |-> name, showArgs |-> showArgs,
                 showDescriptions |-> showDescriptions, sdl |-> r.sdl, err |-> r.err,
                 ran |-> r.ran, wasCached |-> name \in DOMAIN cache,
                 o |-> IF r.ran THEN o ELSE "none"]

DescribeCall ==
    /\ dcall.op = "none"
    /\ \E name \in DescribeNames :
          \E o \in Answers(cache, name) :
             Describing("Describe", name, FALSE, FALSE,
                        Describe(cache, name, cfg.sid, o), o)
    /\ UNCHANGED <<disk, saved, cfg, last, procs>>

DescribeWithCall ==
    /\ dcall.op = "none"
    /\ \E name \in DescribeNames, showArgs \in BOOLEAN, showDescriptions \in BOOLEAN :
          \E o \in Answers(cache, name) :
             Describing("DescribeWith", name, showArgs, showDescriptions,
                        DescribeWith(cache, name, showArgs, showDescriptions, cfg.sid, o), o)
    /\ UNCHANGED <<disk, saved, cfg, last, procs>>

\* The caller has taken the result; the next call can start.
DescReturn ==
    /\ dcall.op # "none"
    /\ dcall' = NoDescribe
    /\ UNCHANGED <<disk, saved, cfg, cache, last, execCount, procs>>

DescNext == DescribeCall \/ DescribeWithCall \/ DescReturn

DescSpec == DescInit /\ [][DescNext]_vars

\* --- one Describer, called by NumProcs goroutines at once ---

ConcInit ==
    /\ cfg \in [sid : SchemaIds, schemaHints : {FALSE}]
    /\ cache = <<>>
    /\ last = NoCall
    /\ dcall = NoDescribe
    /\ execCount = [n \in DescribeNames |-> 0]
    /\ procs = [p \in Procs |-> IdleProc]
    /\ disk = NoDisk
    /\ saved = NoToken

\* Describe returns: d is what it computed.
Returning(p, d) ==
    procs' = [procs EXCEPT ![p].pc = "done", ![p].sdl = d.sdl, ![p].err = d.err]

\* p calls Describe(name) and fetch does its cache.Load: on a hit the call formats
\* the loaded payload and returns, on a miss it goes on to run the executor.
Load(p) ==
    /\ procs[p].pc = "idle"
    /\ \E name \in ConcNames :
          IF cacheLoad(cache, name).ok
          THEN procs' = [procs EXCEPT ![p] =
                            [pc |-> "done", name |-> name, res |-> NoRun,
                             sdl |-> Describe(cache, name, cfg.sid, "ok").sdl, err |-> Nil]]
          ELSE procs' = [procs EXCEPT ![p].pc = "missed", ![p].name = name]
    /\ UNCHANGED <<disk, saved, cfg, cache, last, dcall, execCount>>

\* p's executor run returns.
RunExec(p) ==
    /\ procs[p].pc = "missed"
    /\ execCount[procs[p].name] < MaxExec
    /\ \E o \in ConcOutcomes :
          procs' = [procs EXCEPT ![p].pc = "ran",
                                 ![p].res = exec(cfg.sid, buildDescribeQuery(procs[p].name), o)]
    /\ execCount' = [execCount EXCEPT ![procs[p].name] = @ + 1]
    /\ UNCHANGED <<disk, saved, cfg, cache, last, dcall>>

\* p decodes the response, stores the payload (cache.Store) and Describe returns.
Storing(p, m) ==
    /\ cache' = m.cache
    /\ Returning(p, Formatted(m, FALSE, TRUE))

Finish(p) ==
    /\ procs[p].pc = "ran"
    /\ Storing(p, fetchMiss(cache, procs[p].name, procs[p].res))
    /\ UNCHANGED <<disk, saved, cfg, last, dcall, execCount>>

\* The caller has taken the result; p can call again.
ConcReturn(p) ==
    /\ procs[p].pc = "done"
    /\ procs' = [procs EXCEPT ![p] = IdleProc]
    /\ UNCHANGED <<disk, saved, cfg, cache, last, dcall, execCount>>

ConcNext == \E p \in Procs : Load(p) \/ RunExec(p) \/ Finish(p) \/ ConcReturn(p)

ConcSpec == ConcInit /\ [][ConcNext]_vars

\* --- the operations that keep no state between calls, each applied to inputs drawn
\* --- from bounded sets ---

CallInit ==
    /\ cfg \in [sid : SchemaIds, schemaHints : {FALSE}]
    /\ cache = <<>>
    /\ last = NoCall
    /\ dcall = NoDescribe
    /\ execCount = [n \in DescribeNames |-> 0]
    /\ procs = [p \in Procs |-> IdleProc]
    /\ disk = NoDisk
    /\ saved = NoToken

\* formatTypeRef applied to a type reference: to its full node tree, and to the node
\* tree the describe query returns for it.
TypeRefCall ==
    /\ last.op = "none"
    /\ \E wraps \in WrapSeqs, name \in RefNames :
          last' = [op |-> "formatTypeRef", wraps |-> wraps, name |-> name,
                   full |-> formatTypeRef(BuildRef(wraps, name)),
                   fetched |-> formatTypeRef(SelectTypeRef(BuildRef(wraps, name),
                                                           FragmentLevels))]
    /\ UNCHANGED <<disk, saved, cfg, cache, dcall, execCount, procs>>

\* formatTypeRef applied to a value that is not a well-formed node.
MalformedRefCall ==
    /\ last.op = "none"
    /\ \E node \in MalformedRefs :
          last' = [op |-> "formatMalformed", node |-> node, text |-> formatTypeRef(node)]
    /\ UNCHANGED <<disk, saved, cfg, cache, dcall, execCount, procs>>

\* The extractor applied to the missing-subfields message for a type reference.
ExtractCall ==
    /\ last.op = "none"
    /\ \E wraps \in WrapSeqs, name \in RefNames :
          last' = [op |-> "extract", wraps |-> wraps, name |-> name,
                   typeName |-> extractTypeName(
                       NeedsSubfieldMessage("books", formatTypeRef(BuildRef(wraps, name))))]
    /\ UNCHANGED <<disk, saved, cfg, cache, dcall, execCount, procs>>

\* One call of HTTPClient.Execute, whose error goes to the CLI's handleError.
HTTPReturned(mode, url, query, reply, r) ==
    last' = [op |-> "http", mode |-> mode, url |-> url, text |-> query, reply |-> reply,
             payload |-> r.payload, err |-> r.err, sent |-> r.sent,
             handled |-> IF r.err.isNil THEN [printsResponse |-> FALSE, returns |-> "nil"]
                         ELSE handleError(r.err)]

HTTPCall ==
    /\ last.op = "none"
    /\ \E mode \in ExecutionModes, url \in Urls, query \in QueryTexts, reply \in Replies :
          HTTPReturned(mode, url, query, reply,
                       HTTPExecute(mode, cfg.sid, url, query, NilMap, reply))
    /\ UNCHANGED <<disk, saved, cfg, cache, dcall, execCount, procs>>

\* One call of HTTPClient.ExecuteMutation.
MutationCall ==
    /\ last.op = "none"
    /\ \E mode \in ExecutionModes, url \in {"", "https://h/graphql"},
          variables \in OptionVariables, input \in Inputs, reply \in {"refused", "engine"} :
          last' = [op |-> "mutation", mode |-> mode, url |-> url, variables |-> variables,
                   input |-> input, reply |-> reply,
                   result |-> ExecuteMutation(
                                 mode, cfg.sid, url,
                                 "mutation { addBook(input: {titel: \"a\"}) { id } }",
                                 variables, input, reply)]
    /\ UNCHANGED <<disk, saved, cfg, cache, dcall, execCount, procs>>

\* One Execute on a newly constructed in-process executor.
InlineReturned(ctx, enrich, text, variables, schemaHints, r) ==
    last' = [op |-> "inline", ctx |-> ctx, enrich |-> enrich, text |-> text,
             variables |-> variables, schemaHints |-> schemaHints, raw |-> r.raw,
             err |-> r.err, events |-> r.events, engineCtx |-> r.engineCtx,
             status |-> r.status]

InlineCall ==
    /\ last.op = "none"
    /\ \E ctx \in Contexts, enrich \in Enrichers, text \in QueryTexts,
          variables \in VarKinds, schemaHints \in BOOLEAN, status \in Statuses :
          InlineReturned(ctx, enrich, text, variables, schemaHints,
                         Execute(<<>>, ctx, enrich, text, variables, schemaHints, cfg.sid,
                                 status, <<"ok", "ok">>))
    /\ UNCHANGED <<disk, saved, cfg, cache, dcall, execCount, procs>>

\* FormatTypeSDL applied twice to one payload.
FormatCall ==
    /\ last.op = "none"
    /\ \E slot \in {"fields", "inputFields"}, names \in FieldOrders :
          last' = [op |-> "FormatTypeSDL", slot |-> slot, names |-> names,
                   sdl |-> FormatTypeSDL(FieldPayload(slot, names), FALSE, TRUE),
                   again |-> FormatTypeSDL(FieldPayload(slot, names), FALSE, TRUE)]
    /\ UNCHANGED <<disk, saved, cfg, cache, dcall, execCount, procs>>

\* DescribeWith and Describe on a Describer that has the payload of T cached, and
\* FormatTypeSDL on the same payload with field and argument descriptions added.
OptionsCall ==
    /\ last.op = "none"
    /\ \E description \in Descriptions, argNames \in ArgOrders, showArgs \in BOOLEAN,
          showDescriptions \in BOOLEAN :
          last' = [op |-> "options", description |-> description, argNames |-> argNames,
                   showArgs |-> showArgs, showDescriptions |-> showDescriptions,
                   with |-> DescribeWith("T" :> OptionsPayload(description, argNames, FALSE),
                                         "T", showArgs, showDescriptions, cfg.sid, "ok"),
                   plain |-> Describe("T" :> OptionsPayload(description, argNames, FALSE),
                                      "T", cfg.sid, "ok"),
                   docs |-> FormatTypeSDL(OptionsPayload(description, argNames, TRUE),
                                          showArgs, ~showDescriptions)]
    /\ UNCHANGED <<disk, saved, cfg, cache, dcall, execCount, procs>>

\* One Format call of a formatter of the registry.
FormatterCall ==
    /\ last.op = "none"
    /\ \E format \in Formats, data \in Results :
          last' = [op |-> "Format", format |-> format, data |-> data,
                   result |-> Format(format, data)]
    /\ UNCHANGED <<disk, saved, cfg, cache, dcall, execCount, procs>>

\* One run of the types command.
TypesCall ==
    /\ last.op = "none"
    /\ \E url \in {"", "https://h/graphql"}, filter \in Filters, kind \in Kinds,
          format \in Formats, reply \in {"refused", "null", "engine"} :
          last' = [op |-> "types", url |-> url, filter |-> filter, kind |-> kind,
                   format |-> format, reply |-> reply,
                   result |-> GetTypesCommand(cfg.sid, url, filter, kind, format, reply)]
    /\ UNCHANGED <<disk, saved, cfg, cache, dcall, execCount, procs>>

CallReturn ==
    /\ last.op # "none"
    /\ last' = NoCall
    /\ UNCHANGED <<disk, saved, cfg, cache, dcall, execCount, procs>>

CallNext == TypeRefCall \/ MalformedRefCall \/ ExtractCall \/ FormatCall \/ OptionsCall
            \/ HTTPCall \/ MutationCall \/ InlineCall \/ FormatterCall \/ TypesCall
            \/ CallReturn

CallSpec == CallInit /\ [][CallNext]_vars

\* --- the engine with the schema-hint presenter installed, request inside request ---

\* The most frames of requests and presenter calls the model stacks.
MaxDepth == 7

\* A request the engine is serving, with the errors it has raised and not yet
\* presented, and a presenter call waiting for the introspection request it started.
RequestFrame(text, errs) ==
    [kind |-> "request", text |-> text, errs |-> errs, raised |-> Len(errs), typeName |-> ""]
HookFrame(msg, typeName) ==
    [kind |-> "hook", text |-> msg, errs |-> <<>>, raised |-> 0, typeName |-> typeName]

HookInit ==
    /\ cfg \in [sid : SchemaIds, schemaHints : {TRUE}]
    /\ cache = <<>>
    /\ last = NoCall
    /\ dcall = NoDescribe
    /\ execCount = [n \in DescribeNames |-> 0]
    /\ procs = [p \in Procs |-> IdleProc]
    /\ disk = NoDisk
    /\ saved = NoToken

\* Execute hands an operation to the engine: validation raises its errors, or the
\* operation is valid and a resolver fails with an error of its own.
Receive ==
    /\ last.op = "none"
    /\ \/ \E text \in QueryTexts :
             last' = [op |-> "serving", hooks |-> 0, describes |-> 0, execs |-> 0,
                      stack |-> <<RequestFrame(text, EngineValidate(cfg.sid, text))>>]
       \/ \E msg \in Messages :
             last' = [op |-> "serving", hooks |-> 0, describes |-> 0, execs |-> 0,
                      stack |-> <<RequestFrame("{ books { id title } }", <<msg>>)>>]
    /\ UNCHANGED <<disk, saved, cfg, cache, dcall, execCount, procs>>

\* The engine passes the next error of the request on top to the presenter.  Without
\* a type name the presenter returns at once, with a cached type it returns after
\* Describe; otherwise Describe's fetch runs d.exec, which hands the describe query
\* to the same engine: a new request on top of the presenter call.
Presents(top, rest, typeName) ==
    IF typeName = ""
    THEN last' = [last EXCEPT !.hooks = @ + 1, !.stack = rest \o <<top>>]
    ELSE IF cacheLoad(cache, typeName).ok
    THEN last' = [last EXCEPT !.hooks = @ + 1, !.describes = @ + 1,
                              !.stack = rest \o <<top>>]
    ELSE /\ Len(rest) + 3 <= MaxDepth
         /\ last' = [last EXCEPT
                        !.hooks = @ + 1, !.describes = @ + 1, !.execs = @ + 1,
                        !.stack = rest
                           \o <<top, HookFrame(top.text, typeName),
                                RequestFrame(buildDescribeQuery(typeName),
                                             EngineValidate(cfg.sid,
                                                            buildDescribeQuery(typeName)))>>]

RaiseError ==
    /\ last.op = "serving"
    /\ last.stack[Len(last.stack)].errs # <<>>
    /\ Presents([last.stack[Len(last.stack)] EXCEPT !.errs = Tail(@)],
                SubSeq(last.stack, 1, Len(last.stack) - 1),
                extractTypeName(Head(last.stack[Len(last.stack)].errs)))
    /\ UNCHANGED <<disk, saved, cfg, cache, dcall, execCount, procs>>

\* The engine has presented every error of the request on top and writes the
\* response.  For the outermost request Execute returns; for a describe query fetch
\* decodes the response, stores the payload, and the waiting presenter call returns.
WriteResponse ==
    /\ last.op = "serving"
    /\ last.stack[Len(last.stack)].errs = <<>>
    /\ IF Len(last.stack) = 1
       THEN last' = NoCall /\ cache' = cache
       ELSE /\ cache' = fetchMiss(cache, last.stack[Len(last.stack) - 1].typeName,
                                  exec(cfg.sid, last.stack[Len(last.stack)].text,
                                       IF last.stack[Len(last.stack)].raised > 0
                                       THEN "data_null" ELSE "ok")).cache
            /\ last' = [last EXCEPT !.stack = SubSeq(@, 1, Len(@) - 2)]
    /\ UNCHANGED <<disk, saved, cfg, dcall, execCount, procs>>

HookNext == Receive \/ RaiseError \/ WriteResponse

HookSpec == HookInit /\ [][HookNext]_vars

\* ------------------------------------------------------------------------
\* Token store (pkg/token.go) and the login commands of the inline command set
\* ------------------------------------------------------------------------

\* strings.TrimSpace on ASCII text.
TrimSpace(s) == Trim(s, " \t\n\r\f")

\* os.MkdirAll(s.dir, 0700)
MkdirAll(d) == [disk |-> [d EXCEPT !.dir = TRUE], err |-> Nil]

\* os.WriteFile(path, data, 0600): the directory of path must exist.
WriteFile(d, data) ==
    IF ~d.dir THEN [disk |-> d, err |-> Err("open token: no such file or directory")]
    ELSE [disk |-> [d EXCEPT !.file = TRUE, !.data = data], err |-> Nil]

\* os.Stat(path): nil when the token file exists, else an error os.IsNotExist accepts.
Stat(d) == IF d.file THEN Nil ELSE Err("stat token: no such file or directory")
IsNotExist(err) == ~err.isNil

\* os.ReadFile(path)
ReadFile(d) ==
    IF ~d.file THEN [data |-> "", err |-> Err("open token: no such file or directory")]
    ELSE [data |-> d.data, err |-> Nil]

\* os.Remove(path)
Remove(d) ==
    IF ~d.file THEN [disk |-> d, err |-> Err("remove token: no such file or directory")]
    ELSE [disk |-> [d EXCEPT !.file = FALSE, !.data = ""], err |-> Nil]

\* TokenStore.Save
TokenStoreSave(d, token) ==
    LET made == MkdirAll(d)
    IN IF ~made.err.isNil
       THEN [disk |-> made.disk,
             err |-> Err("failed to create token directory: " \o made.err.msg)]
       ELSE LET written == WriteFile(made.disk, TrimSpace(token))
            IN IF ~written.err.isNil
               THEN [disk |-> written.disk,
                     err |-> Err("failed to write token: " \o written.err.msg)]
               ELSE [disk |-> written.disk, err |-> Nil]

\* TokenStore.Load
TokenStoreLoad(d) ==
    IF IsNotExist(Stat(d)) THEN [token |-> "", err |-> Nil]
    ELSE LET read == ReadFile(d)
         IN IF ~read.err.isNil
            THEN [token |-> "", err |-> Err("failed to read token: " \o read.err.msg)]
            ELSE [token |-> TrimSpace(read.data), err |-> Nil]

\* Fault variant of TokenStoreClear: nil is returned and the file stays.
TokenStoreClearKeeps(d) == [disk |-> d, err |-> Nil]

\* TokenStore.Clear
TokenStoreClear(d) ==
    IF IsNotExist(Stat(d)) THEN [disk |-> d, err |-> Nil]
    ELSE LET removed == Remove(d)
         IN IF ~removed.err.isNil
            THEN [disk |-> removed.disk,
                  err |-> Err("failed to delete token: " \o removed.err.msg)]
            ELSE [disk |-> removed.disk, err |-> Nil]

\* TokenStore.Exists
TokenStoreExists(d) == Stat(d).isNil

\* The tokens handed to Save.
Tokens == {"", "tok", " tok\n", "\t ", "a b "}

\* What the executor returns for the login mutation: an error, or response bytes.
LoginToken(token) == JObj([login |-> JObj([token |-> JStr(token)])])
LoginReplies ==
    {[err |-> Err("context canceled"), raw |-> NoBody],
     [err |-> Nil,
      raw |-> Body(JObj([errors |-> JArr(<<JObj([message |-> JStr("bad credentials")])>>),
                         data |-> JNull]))],
     [err |-> Nil, raw |-> Body(JObj([data |-> LoginToken("tok")]))],
     [err |-> Nil, raw |-> Body(JObj([data |-> LoginToken(" tok\n")]))],
     [err |-> Nil, raw |-> Body(JObj([data |-> LoginToken("")]))],
     [err |-> Nil, raw |-> Body(JObj([data |-> JObj([login |-> JNull])]))],
     [err |-> Nil, raw |-> Body(JObj([data |-> JNull]))]}

\* LoginConfig.ExtractToken is the application's function: "example" is the one of the
\* example program, "strict" one that refuses a response without a token.
Extractors == {"example", "strict"}
ExtractToken(extractor, data) ==
    LET login == IF data.isNil THEN JNull ELSE Get(data.m, "login")
        token == IF login.t = "obj" THEN AsString(Get(login.v, "token")) ELSE ""
    IN IF extractor = "strict" /\ token = ""
       THEN [token |-> "", err |-> Err("no token in response")]
       ELSE [token |-> token, err |-> Nil]

\* What a command did: the store's directory afterwards, the error it returned, what
\* it printed, and the token it handed to Save (wrote is FALSE when Save was not
\* reached).
Done(d, err, printed, wrote, token) ==
    [disk |-> d, err |-> err, printed |-> printed, wrote |-> wrote, token |-> token]

\* The action of loginCommand, once the extracted token is known.
loginSave(d, hasStore, extracted) ==
    IF ~extracted.err.isNil
    THEN Done(d, Err("failed to extract token: " \o extracted.err.msg), "", FALSE, "")
    ELSE IF ~hasStore THEN Done(d, Err("no token store configured"), "", FALSE, "")
    ELSE LET s == TokenStoreSave(d, extracted.token)
         IN IF ~s.err.isNil
            THEN Done(s.disk, Err("failed to save token: " \o s.err.msg), "", TRUE,
                      extracted.token)
            ELSE Done(s.disk, Nil, "Logged in. Token saved to dir\n", TRUE,
                      extracted.token)

\* The action of loginCommand.
loginCommand(d, hasStore, extractor, reply) ==
    IF ~reply.err.isNil THEN Done(d, Err("login failed: " \o reply.err.msg), "", FALSE, "")
    ELSE LET u == Unmarshal(reply.raw)
             errs == AsArray(Get(u.result, "errors"))
             data == Get(u.result, "data")
         IN IF ~u.err.isNil
            THEN Done(d, Err("failed to parse response: " \o u.err.msg), "", FALSE, "")
            ELSE IF Len(errs) > 0
            THEN IF errs[1].t = "obj"
                 THEN Done(d, Err("login failed: "
                                  \o (IF Get(errs[1].v, "message").t = "str"
                                      THEN Get(errs[1].v, "message").v
                                      ELSE "%!s(<nil>)")), "", FALSE, "")
                 ELSE Done(d, Err("login failed"), "", FALSE, "")
            ELSE loginSave(d, hasStore,
                           ExtractToken(extractor,
                                        IF data.t = "obj" THEN MapOf(data.v) ELSE NilMap))

\* The action of logoutCommand.
logoutCommand(d, hasStore) ==
    IF ~hasStore \/ ~TokenStoreExists(d) THEN Done(d, Nil, "No active session.\n", FALSE, "")
    ELSE LET c == TokenStoreClear(d)
         IN IF ~c.err.isNil THEN Done(c.disk, c.err, "", FALSE, "")
            ELSE Done(c.disk, Nil, "Logged out.\n", FALSE, "")

\* --- one token store, its methods and the login commands called one after another ---

TokenInit ==
    /\ cfg \in [sid : SchemaIds, schemaHints : {FALSE}]
    /\ cache = <<>>
    /\ last = NoCall
    /\ dcall = NoDescribe
    /\ execCount = [n \in DescribeNames |-> 0]
    /\ procs = [p \in Procs |-> IdleProc]
    /\ disk \in {NoDisk, [NoDisk EXCEPT !.dir = TRUE]}
    /\ saved = NoToken

TokenCall(op, token, exists, err, printed) ==
    [op |-> op, token |-> token, exists |-> exists, err |-> err, printed |-> printed]

SaveCall ==
    /\ \E token \in Tokens :
          LET s == TokenStoreSave(disk, token)
          IN /\ disk' = s.disk
             /\ saved' = IF s.err.isNil THEN [has |-> TRUE, token |-> token] ELSE saved
             /\ last' = TokenCall("Save", token, FALSE, s.err, "")
    /\ UNCHANGED <<cfg, cache, dcall, execCount, procs>>

LoadCall ==
    /\ last' = TokenCall("Load", TokenStoreLoad(disk).token, FALSE,
                         TokenStoreLoad(disk).err, "")
    /\ UNCHANGED <<disk, saved, cfg, cache, dcall, execCount, procs>>

ClearCall ==
    /\ disk' = TokenStoreClear(disk).disk
    /\ saved' = IF TokenStoreClear(disk).err.isNil THEN NoToken ELSE saved
    /\ last' = TokenCall("Clear", "", FALSE, TokenStoreClear(disk).err, "")
    /\ UNCHANGED <<cfg, cache, dcall, execCount, procs>>

ExistsCall ==
    /\ last' = TokenCall("Exists", "", TokenStoreExists(disk), Nil, "")
    /\ UNCHANGED <<disk, saved, cfg, cache, dcall, execCount, procs>>

LoginCall ==
    /\ \E hasStore \in BOOLEAN, extractor \in Extractors, reply \in LoginReplies :
          LET r == loginCommand(disk, hasStore, extractor, reply)
          IN /\ disk' = r.disk
             /\ saved' = IF r.wrote /\ r.err.isNil
                         THEN [has |-> TRUE, token |-> r.token] ELSE saved
             /\ last' = TokenCall("login", r.token, r.wrote, r.err, r.printed)
    /\ UNCHANGED <<cfg, cache, dcall, execCount, procs>>

LogoutCall ==
    /\ \E hasStore \in BOOLEAN :
          LET r == logoutCommand(disk, hasStore)
          IN /\ disk' = r.disk
             /\ saved' = IF r.printed = "Logged out.\n" THEN NoToken ELSE saved
             /\ last' = TokenCall("logout", "", hasStore, r.err, r.printed)
    /\ UNCHANGED <<cfg, cache, dcall, execCount, procs>>

TokenNext == SaveCall \/ LoadCall \/ ClearCall \/ ExistsCall \/ LoginCall \/ LogoutCall

TokenSpec == TokenInit /\ [][TokenNext]_vars

\* ------------------------------------------------------------------------
\* Properties
\* ------------------------------------------------------------------------

\* The errors array of the response bytes of the last Execute call.
ResponseErrors == AsArray(Get(last.raw.json.v, "errors"))

\* What Describe returns for the types of the example schema.
BookSDL == "type Book {\n  author: Author!\n  id: ID!\n  title: String!\n}\n"
AddBookInputSDL == "input AddBookInput {\n  authorName: String!\n  title: String!\n}\n"
QuerySDL == "type Query {\n  book: Book\n  books: [Book!]!\n}\n"
QueryArgsSDL == "type Query {\n  book(id: ID!): Book\n  books: [Book!]!\n}\n"

\* The operations that select one unknown field, with the type it is selected on and
\* that type's SDL.
UnknownFieldOps ==
    {[text |-> "{ books { id titl } }", on |-> "Book", sdl |-> BookSDL],
     [text |-> "{ bookz { id } }", on |-> "Query", sdl |-> QuerySDL]}

\* The presenter ran on the calls of last: the hook itself, or an Execute of an
\* executor built with schema hints whose request was marshalled.
Hooked ==
    \/ last.op = "present"
    \/ last.op = "execute" /\ cfg.schemaHints /\ last.variables # "unmarshalable"

\* The i-th error of last was enriched: Describe was called and returned an SDL text.
Enriched(i) ==
    last.hints[i].called /\ last.hints[i].err.isNil /\ last.hints[i].sdl # ""

C2_DescribeFailureSilent ==
    Hooked =>
       \A i \in 1..Len(last.hints) :
          (last.hints[i].called /\ ~last.hints[i].err.isNil) =>
             /\ last.outs[i].Message = last.ins[i].Message
             /\ last.outs[i].Path = last.ins[i].Path
             /\ last.outs[i].Extensions = last.ins[i].Extensions
             /\ last.op = "execute" =>
                   /\ last.err.isNil /\ last.raw.valid
                   /\ Len(ResponseErrors) = Len(last.ins)
                   /\ "schemaHint" \notin DOMAIN Get(ResponseErrors[i].v, "extensions").v

C2_Witness ==
    /\ last.op = "execute" /\ Len(last.hints) = 2
    /\ last.hints[1].err = Err("introspection failed: failed to marshal request")
    /\ last.hints[2].err = Err("type \"Book\" not found in schema")
    /\ last.err.isNil /\ last.raw.valid
    /\ last.outs = last.ins

\* C3: the error the hook returns keeps the message, the path and every extension
\* entry other than schemaHint of the error it received, whether or not that was a
\* GraphQL error value; a successful enrichment sets schemaHint (creating the map
\* when it is missing) and changes nothing else, and without one the extensions are
\* the ones received.
C3_ErrorPreserved ==
    Hooked =>
       \A i \in 1..Len(last.hints) :
          /\ last.outs[i].isGql
          /\ last.outs[i].Message = last.ins[i].Message
          /\ last.outs[i].Path = last.ins[i].Path
          /\ \A k \in DOMAIN last.ins[i].Extensions.m \ {"schemaHint"} :
                /\ k \in DOMAIN last.outs[i].Extensions.m
                /\ last.outs[i].Extensions.m[k] = last.ins[i].Extensions.m[k]
          /\ IF Enriched(i)
             THEN /\ ~last.outs[i].Extensions.isNil
                  /\ DOMAIN last.outs[i].Extensions.m
                        = DOMAIN last.ins[i].Extensions.m \cup {"schemaHint"}
                  /\ last.outs[i].Extensions.m["schemaHint"] = JStr(last.hints[i].sdl)
             ELSE last.outs[i].Extensions = last.ins[i].Extensions

C3_Witness ==
    /\ last.op = "present" /\ Enriched(1)
    /\ last.ins[1].isGql /\ last.ins[1].Path = <<"books">>
    /\ last.ins[1].Extensions.isNil
    /\ last.outs[1].Path = <<"books">>
    /\ last.outs[1].Extensions = MapOf([schemaHint |-> JStr(BookSDL)])

\* C4: an error that carries an extensions.schemaHint entry when the hook receives it
\* carries the same value when the hook returns it.
C4_HintNeverOverwritten ==
    Hooked =>
       \A i \in 1..Len(last.hints) :
          "schemaHint" \in DOMAIN last.ins[i].Extensions.m =>
             /\ "schemaHint" \in DOMAIN last.outs[i].Extensions.m
             /\ last.outs[i].Extensions.m["schemaHint"]
                   = last.ins[i].Extensions.m["schemaHint"]

\* C5: in a sequence of Describe calls on one Describer, once a fetch for name N
\* has succeeded (N is in the cache) no later call runs the executor for N: the
\* count of executor runs for N stays what it was.
C5_NoRefetchOnceCached ==
    [][\A n \in DescribeNames : n \in DOMAIN cache => execCount'[n] = execCount[n]]_vars

C5_Witness ==
    /\ dcall.op = "Describe" /\ dcall.wasCached /\ ~dcall.ran
    /\ dcall.err.isNil /\ dcall.sdl = AddBookInputSDL
    /\ execCount[dcall.name] = 1

\* C6: DescribeWith for a name that is cached runs no fetch, whatever the options,
\* and returns FormatTypeSDL of the cached payload with the requested options.
C6_DescribeWithFromCache ==
    (dcall.op = "DescribeWith" /\ dcall.wasCached) =>
       /\ ~dcall.ran
       /\ dcall.err.isNil
       /\ dcall.sdl = FormatTypeSDL(cache[dcall.name], dcall.showArgs,
                                    ~dcall.showDescriptions)

C6_Witness ==
    /\ dcall.op = "DescribeWith" /\ dcall.wasCached /\ dcall.name = "Query"
    /\ dcall.showArgs /\ dcall.showDescriptions
    /\ dcall.sdl = QueryArgsSDL

\* C7: when the introspection response has a data object whose __type is null or
\* absent, Describe (and DescribeWith) returns an error that names the requested
\* type and no SDL, and stores nothing.
C7_TypeNotFound ==
    (/\ dcall.op # "none"
     /\ \/ dcall.o \in {"type_null", "type_absent"}
        \/ dcall.o = "ok" /\ dcall.name \notin SchemaTypeNames) =>
       /\ dcall.err = Err("type \"" \o dcall.name \o "\" not found in schema")
       /\ dcall.sdl = ""
       /\ dcall.name \notin DOMAIN cache

C7_Witness ==
    /\ dcall.op = "Describe" /\ dcall.name = "Nope" /\ dcall.o = "ok"
    /\ dcall.err = Err("type \"Nope\" not found in schema")
    /\ dcall.sdl = ""

\* C8: under concurrent calls too, a cache entry that exists for name N exists after
\* every step and holds the payload it held before: no entry is evicted or changed.
C8_EntriesStable ==
    [][\A n \in DOMAIN cache : n \in DOMAIN cache' /\ cache'[n] = cache[n]]_vars

\* Two calls for one name both missed, both ran the executor and both stored.
C8_Witness ==
    \E p, q \in Procs :
       /\ p # q
       /\ procs[p].pc = "done" /\ procs[q].pc = "done"
       /\ procs[p].name = procs[q].name
       /\ procs[p].res.raw.valid /\ procs[q].res.raw.valid
       /\ procs[p].err.isNil /\ procs[q].err.isNil
       /\ procs[p].name \in DOMAIN cache

\* The SDL Describe returns for each name the concurrent callers ask for.
ConcSDL(name) == IF name = "Book" THEN BookSDL ELSE AddBookInputSDL

\* The goroutine p finishes a fetch in this step.
Finishing(p) == procs[p].pc = "ran" /\ procs'[p].pc = "done"

\* C9: under every interleaving of concurrent Describe calls, the entry under key N
\* is the payload the executor returns for N, every call that succeeds returns the
\* SDL of the name it asked for, and the cache changes only when a call finishes its
\* fetch, and then only by that call's payload under that call's name.
C9_NoCrossTalk ==
    /\ [](\A n \in DOMAIN cache :
             /\ AsString(Get(cache[n], "name")) = n
             /\ cache[n] = SchemaType(cfg.sid, n))
    /\ [](\A p \in Procs :
             (procs[p].pc = "done" /\ procs[p].err.isNil) =>
                procs[p].sdl = ConcSDL(procs[p].name))
    /\ [][\/ cache' = cache
          \/ \E p \in Procs :
                /\ Finishing(p)
                /\ DOMAIN cache' = DOMAIN cache \cup {procs[p].name}
                /\ \A n \in DOMAIN cache : n # procs[p].name => cache'[n] = cache[n]
                /\ AsString(Get(cache'[procs[p].name], "name")) = procs[p].name]_vars

\* Two calls for different names were in flight together and both fetched.
C9_Witness ==
    \E p, q \in Procs :
       /\ procs[p].pc = "done" /\ procs[q].pc = "done"
       /\ procs[p].name = "Book" /\ procs[q].name = "AddBookInput"
       /\ procs[p].res.raw.valid /\ procs[q].res.raw.valid
       /\ procs[p].sdl = BookSDL /\ procs[q].sdl = AddBookInputSDL
       /\ DOMAIN cache = {"Book", "AddBookInput"}

\* The four rules of the extractor in their order, and the type a rule's capture
\* group names (the fourth rule's capture is a type reference).
ExtractorRules == <<reOutputField, reInputField, reUnknownArg, reNeedsSubfield>>
MatchingRules(message) ==
    {k \in 1..4 : FindStringSubmatch(ExtractorRules[k], message) # <<>>}
LowestRule(message) ==
    CHOOSE k \in MatchingRules(message) : \A j \in MatchingRules(message) : k <= j
TypeOfRule(k, message) ==
    IF k = 4 THEN Trim(FindStringSubmatch(ExtractorRules[k], message)[2], "[]!")
    ELSE FindStringSubmatch(ExtractorRules[k], message)[2]

\* The type each message names under "lowest-numbered matching rule wins".
ExpectedType ==
    (MsgOutputField :> "Book") @@ (MsgInputField :> "AddBookInput")
    @@ (MsgUnknownArg :> "Query") @@ (MsgNeedsSubfield :> "Book")
    @@ (MsgNoSuchType :> "Nope") @@ (MsgInputThenOutput :> "Book")
    @@ (MsgSubfieldThenArg :> "Query") @@ (MsgArgThenInput :> "AddBookInput")

\* C10: the extractor tries the four rules in the order output field, input field,
\* unknown argument, missing subfields, and the type it extracts is the one named by
\* the lowest-numbered rule that matches the message; no type when none matches.
C10_FirstRuleWins ==
    Hooked =>
       \A i \in 1..Len(last.hints) :
          LET message == last.ins[i].Message
          IN /\ last.hints[i].typeName
                   = IF MatchingRules(message) = {} THEN ""
                     ELSE TypeOfRule(LowestRule(message), message)
             /\ message \in DOMAIN ExpectedType =>
                   last.hints[i].typeName = ExpectedType[message]

C10_Witness ==
    /\ last.op = "present"
    /\ last.ins[1].Message = MsgInputThenOutput
    /\ MatchingRules(MsgInputThenOutput) = {1, 2}
    /\ last.hints[1].typeName = "Book"

\* The characters of a rendered type reference that wrap the name.
WrapperChars == {"[", "]", "!"}

\* C11: for the message Field "X" of type "R" must have a selection of subfields,
\* with R the rendering of a name N under any nesting of list and non-null wrappers,
\* the extractor returns exactly N, with no [, ] or ! character.
C11_WrappersStripped ==
    last.op = "extract" =>
       /\ last.typeName = last.name
       /\ \A i \in 1..Len(last.typeName) : Char(last.typeName, i) \notin WrapperChars

C11_Witness ==
    /\ last.op = "extract"
    /\ last.wraps = <<"N", "L", "N">> /\ last.name = "Book"
    /\ last.typeName = "Book"

\* C12: when the message of an error matches none of the four extractor rules, the
\* hook extracts no type, makes no Describe call (so no introspection run), and
\* returns the error as it received it: the same value when it is a GraphQL error,
\* and otherwise a GraphQL error with the same text and nothing else; its extensions
\* get no schemaHint entry that was not there.
C12_NoMatchPassThrough ==
    Hooked =>
       \A i \in 1..Len(last.hints) :
          MatchingRules(last.ins[i].Message) = {} =>
             /\ last.hints[i].typeName = ""
             /\ ~last.hints[i].called /\ ~last.hints[i].ran
             /\ last.ins[i].isGql => last.outs[i] = last.ins[i]
             /\ last.outs[i].Message = last.ins[i].Message
             /\ last.outs[i].Path = last.ins[i].Path
             /\ last.outs[i].Extensions = last.ins[i].Extensions

C12_Witness ==
    /\ last.op = "execute" /\ cfg.schemaHints
    /\ last.text = "{ books {"
    /\ Len(last.hints) = 1
    /\ MatchingRules(last.ins[1].Message) = {}
    /\ ~last.hints[1].called
    /\ last.outs = last.ins
    /\ "schemaHint" \notin DOMAIN Get(ResponseErrors[1].v, "extensions").v

\* The decoded body of the answer to the last HTTP call, and whether it is an object
\* with an errors entry.
DecodedReply == Unmarshal(ServerBody(cfg.sid, last.text, last.reply))
ReplyHasErrors ==
    /\ last.op = "http" /\ last.sent # <<>> /\ last.reply # "refused"
    /\ DecodedReply.err.isNil /\ "errors" \in DOMAIN DecodedReply.result

\* C13: when the decoded response of the HTTP client's Execute contains errors,
\* Execute returns the whole decoded response (a non-nil payload) together with an
\* error of the response-contains-errors type, which the CLI's handler recognises and
\* whose response it prints; never a nil payload with an untyped error.
C13_PayloadWithTypedError ==
    ReplyHasErrors =>
       /\ ~last.payload.isNil
       /\ last.payload.m = DecodedReply.result
       /\ \E i \in 1..Len(last.err.chain) : last.err.chain[i] = "*GraphQLResponseError"
       /\ last.handled.printsResponse

\* The schemaHint of an encoded error, JNull when it has none.
HintIn(e) ==
    IF e.t = "obj" /\ "extensions" \in DOMAIN e.v /\ e.v["extensions"].t = "obj"
       /\ "schemaHint" \in DOMAIN e.v["extensions"].v
    THEN e.v["extensions"].v["schemaHint"]
    ELSE JNull

\* The errors of the same operation run in process with schema hints enabled, on a
\* new executor whose introspection succeeds.
InProcessErrors ==
    AsArray(Get(Execute(<<>>, Ctx(<<>>), "none", last.text, "nil", TRUE, cfg.sid, 200,
                        <<"ok", "ok">>).raw.json.v,
                "errors"))

\* The errors the HTTP client hands to its caller: those of the payload, or without a
\* payload those the returned error was built from.
HTTPErrors ==
    IF ~last.payload.isNil /\ "errors" \in DOMAIN last.payload.m
    THEN AsArray(last.payload.m["errors"])
    ELSE IF Len(last.err.args) > 0 THEN AsArray(last.err.args[1])
    ELSE <<>>

\* C14: for the same schema and the same failing query, every error that in-process
\* enrichment gives a schemaHint comes back from the HTTP client, run against a
\* server that adds no hints itself, with the same schemaHint text.
C14_SameHintBothModes ==
    (ReplyHasErrors /\ last.reply = "engine") =>
       /\ Len(HTTPErrors) = Len(InProcessErrors)
       /\ \A i \in 1..Len(InProcessErrors) :
             i <= Len(HTTPErrors) => HintIn(HTTPErrors[i]) = HintIn(InProcessErrors[i])

\* C15: an HTTP operation whose configured URL is empty or starts with neither
\* http:// nor https:// returns a configuration error and no payload, and no request
\* is sent.
C15_UrlValidatedFirst ==
    (last.op = "http" /\ last.mode = "http"
     /\ last.url \notin {"http://h/graphql", "https://h/graphql"}) =>
       /\ last.sent = <<>>
       /\ last.payload.isNil
       /\ ~last.err.isNil
       /\ last.err.msg = IF last.url = "" THEN "GraphQL URL is not configured"
                         ELSE "URL must start with http:// or https://"
       /\ last.handled.returns = "err"

C15_Witness ==
    /\ last.op = "http" /\ last.mode = "http"
    /\ last.url = "localhost:8080/graphql" /\ last.reply = "engine"
    /\ last.sent = <<>>
    /\ last.err.msg = "URL must start with http:// or https://"

\* Whether the last in-process call had a body that can be marshalled and a non-nil
\* context for its request.
RequestBuilt ==
    /\ last.variables # "unmarshalable"
    /\ IF last.enrich = "none" THEN ~last.ctx.isNil ELSE last.enrich # "nil"

\* C16: an in-process Execute whose request can be built returns the bytes the engine
\* wrote and a nil error, whatever errors the response holds and whatever status the
\* engine set; it returns a non-nil error, and no bytes, only when marshalling the
\* body or building the request fails.
C16_ErrorsAreData ==
    last.op = "inline" =>
       IF RequestBuilt
       THEN /\ last.err.isNil
            /\ last.raw.valid
            /\ last.raw = ServeHTTP(<<>>, last.text, last.schemaHints, cfg.sid,
                                    <<"ok", "ok">>).body
       ELSE /\ last.err = Err(IF last.variables = "unmarshalable"
                              THEN "failed to marshal request: json: unsupported type"
                              ELSE "failed to create request: net/http: nil Context")
            /\ last.raw = NoBody

C16_Witness ==
    /\ last.op = "inline" /\ last.text = "{ books { titl nam } }"
    /\ last.status = 422
    /\ last.err.isNil /\ last.raw.valid
    /\ Len(AsArray(Get(last.raw.json.v, "errors"))) = 2

\* The positions of a step in the steps the last in-process call ran.
StepsOf(step) == {i \in 1..Len(last.events) : last.events[i] = step}

\* C17: an Execute on an executor with a context enricher calls the enricher exactly
\* once, before the engine is invoked, and the engine is given the context the
\* enricher returned; on an executor without one the enricher step never runs and
\* the engine is given the caller's context.
C17_EnricherOnceBeforeEngine ==
    last.op = "inline" =>
       IF last.enrich # "none"
       THEN /\ Cardinality(StepsOf("enrich")) = 1
            /\ \A i \in StepsOf("enrich"), j \in StepsOf("ServeHTTP") : i < j
            /\ StepsOf("ServeHTTP") # {} =>
                  last.engineCtx = enrichWith(last.enrich, last.ctx)
       ELSE /\ StepsOf("enrich") = {}
            /\ StepsOf("ServeHTTP") # {} => last.engineCtx = last.ctx

C17_Witness ==
    /\ last.op = "inline" /\ last.enrich = "session"
    /\ last.ctx = Ctx(<<"trace">>)
    /\ last.events = <<"enrich", "Marshal", "NewRequest", "ServeHTTP">>
    /\ last.engineCtx = Ctx(<<"trace", "session">>)

\* The line of each field of the pool, and the line of a field when the last payload
\* holds it.
LineOf ==
    [id |-> "  id: ID!\n", Zed |-> "  Zed: String!\n", name |-> "  name: String!\n",
     title |-> "  title: String!\n", books |-> "  books: [Book!]!\n",
     meta |-> "  meta: json\n"]
LineIfIn(name) ==
    IF \E i \in 1..Len(last.names) : last.names[i] = name THEN LineOf[name] ELSE ""

RECURSIVE Wrapped(_, _)
Wrapped(wraps, name) ==
    IF Len(wraps) = 0 THEN name
    ELSE IF wraps[1] = "N" THEN Wrapped(Tail(wraps), name) \o "!"
    ELSE "[" \o Wrapped(Tail(wraps), name) \o "]"

\* C19: the resolver renders NON_NULL(inner) as the text of inner followed by "!",
\* LIST(inner) as the text of inner between "[" and "]", and a named node as its
\* name; the shapes name, NON_NULL(name), LIST(name) and NON_NULL(LIST(NON_NULL(name)))
\* give name, name!, [name] and [name!]!.
C19_ResolverShapes ==
    last.op = "formatTypeRef" =>
       /\ last.full = Wrapped(last.wraps, last.name)
       /\ last.wraps = <<>> => last.full = last.name
       /\ last.wraps = <<"N">> => last.full = last.name \o "!"
       /\ last.wraps = <<"L">> => last.full = "[" \o last.name \o "]"
       /\ last.wraps = <<"N", "L", "N">> => last.full = "[" \o last.name \o "!]!"

C19_Witness ==
    /\ last.op = "formatTypeRef"
    /\ last.wraps = <<"N", "L", "N">> /\ last.name = "Book"
    /\ last.full = "[Book!]!"

\* C20: of a type reference as the describe query returns it, a node and four ofType
\* levels, the resolver renders the name and every wrapper when the name is under at
\* most 4 wrappers, and under more than 4 wrappers it renders Unknown inside the
\* five wrappers that were fetched; on a node without ofType, without name or that
\* is no object it returns a text built from Unknown.
C20_FetchedDepth ==
    /\ last.op = "formatTypeRef" =>
          last.fetched = IF Len(last.wraps) <= 4 THEN Wrapped(last.wraps, last.name)
                         ELSE Wrapped(SubSeq(last.wraps, 1, 5), "Unknown")
    /\ last.op = "formatMalformed" =>
          last.text = IF last.node.t # "obj" \/ "kind" \notin DOMAIN last.node.v
                         \/ last.node.v["kind"] = JStr("OBJECT")
                      THEN "Unknown"
                      ELSE IF last.node.v["kind"] = JStr("LIST") THEN "[Unknown]"
                      ELSE "Unknown!"

C20_Witness ==
    /\ last.op = "formatTypeRef"
    /\ last.wraps = <<"N", "L", "N", "L", "N">> /\ last.name = "Book"
    /\ last.full = "[[Book!]!]!"
    /\ last.fetched = "[[Unknown!]!]!"

\* The text of each argument of the pool, and the argument list of the last payload's
\* field: the texts in the payload's order, separated by a comma and a space.
ArgText == [id |-> "id: ID!", first |-> "first: Int", after |-> "after: String"]
RECURSIVE ArgList(_)
ArgList(names) ==
    IF Len(names) = 0 THEN ""
    ELSE IF Len(names) = 1 THEN ArgText[names[1]]
    ELSE ArgText[names[1]] \o ", " \o ArgList(Tail(names))

\* The description line the last payload gets when descriptions are asked for.
DescriptionLine ==
    IF last.showDescriptions /\ last.description = JStr("A type") THEN "# A type\n" ELSE ""

\* C21: a field line is name(arg1: T1, arg2: T2): ReturnType, the arguments in the
\* payload's order, exactly when showArgs is set and the field has an argument, and
\* name: ReturnType otherwise; Describe never renders an argument list.
C21_ArgumentLists ==
    last.op = "options" =>
       /\ last.with.err.isNil /\ last.plain.err.isNil
       /\ last.with.sdl
             = DescriptionLine \o "type T {\n"
               \o (IF last.showArgs /\ Len(last.argNames) > 0
                   THEN "  f(" \o ArgList(last.argNames) \o "): String!\n"
                   ELSE "  f: String!\n")
               \o "}\n"
       /\ last.plain.sdl = "type T {\n  f: String!\n}\n"

C21_Witness ==
    /\ last.op = "options" /\ last.showArgs /\ ~last.showDescriptions
    /\ last.argNames = <<"first", "after">>
    /\ last.with.sdl = "type T {\n  f(first: Int, after: String): String!\n}\n"
    /\ last.plain.sdl = "type T {\n  f: String!\n}\n"

\* The positions at which text occurs in s.
Occurrences(s, text) == {i \in 1..Len(s) : HasPrefixAt(s, i, text)}

C27_FailureNotCached ==
    [][(dcall.op = "none" /\ dcall'.op # "none") =>
          /\ ~dcall'.err.isNil => cache' = cache
          /\ dcall'.name \notin DOMAIN cache =>
                /\ dcall'.ran
                /\ (dcall'.o = "ok" /\ dcall'.name \in SchemaTypeNames) =>
                      /\ dcall'.err.isNil /\ dcall'.sdl # ""
                      /\ dcall'.name \in DOMAIN cache']_vars

C27_Witness ==
    /\ dcall.op = "Describe" /\ dcall.name = "Book"
    /\ execCount["Book"] = 2
    /\ dcall.ran /\ dcall.o = "ok"
    /\ dcall.err.isNil /\ dcall.sdl = BookSDL
    /\ "Book" \in DOMAIN cache

\* C29: once the answer of an HTTP operation is decoded, the client returns the
\* GraphQL-errors error exactly when the decoded object has an errors entry, also
\* when that entry is null or an empty array; without the entry it returns the
\* decoded response and a nil error.
C29_ErrorsKeyDecides ==
    (last.op = "http" /\ last.sent # <<>> /\ last.reply # "refused"
     /\ DecodedReply.err.isNil) =>
       /\ last.reply \in {"errors_null", "errors_empty"} => ~last.err.isNil
       /\ IF "errors" \in DOMAIN DecodedReply.result
          THEN /\ ~last.err.isNil
               /\ last.err.msg = "%s%s"
               /\ last.err.args[1] = DecodedReply.result["errors"]
          ELSE /\ last.err.isNil
               /\ last.payload.m = DecodedReply.result

C29_Witness ==
    /\ last.op = "http" /\ last.reply = "errors_empty"
    /\ last.sent # <<>>
    /\ ~last.err.isNil /\ last.err.args[1] = JArr(<<>>)
    /\ last.payload.isNil

\* C23: the request ExecuteMutation sends carries, for a non-nil Input, the entries
\* of the options' Variables with the key input set to Input (a new map when the
\* Variables are nil) and every other entry as given; for a nil Input it carries the
\* Variables as given.
C23_InputWrapped ==
    (last.op = "mutation" /\ last.result.sent # <<>>) =>
       /\ Len(last.result.sent) = 1
       /\ IF last.input.t # "null"
          THEN /\ ~last.result.sent[1].variables.isNil
               /\ DOMAIN last.result.sent[1].variables.m
                     = DOMAIN last.variables.m \cup {"input"}
               /\ last.result.sent[1].variables.m["input"] = last.input
               /\ \A k \in DOMAIN last.variables.m \ {"input"} :
                     last.result.sent[1].variables.m[k] = last.variables.m[k]
          ELSE last.result.sent[1].variables = last.variables

C23_Witness ==
    /\ last.op = "mutation" /\ last.mode = "http"
    /\ last.variables = MapOf([id |-> JStr("1"), input |-> JObj([title |-> JStr("old")])])
    /\ last.input = JObj([title |-> JStr("a")])
    /\ last.result.sent
          = <<[url |-> "https://h/graphql",
               query |-> "mutation { addBook(input: {titel: \"a\"}) { id } }",
               variables |-> MapOf([id |-> JStr("1"),
                                    input |-> JObj([title |-> JStr("a")])])]>>

\* The presenter calls that wait on the stack of the request being served.
WaitingHooks == {i \in 1..Len(last.stack) : last.stack[i].kind = "hook"}

\* The work left for the request being served: three for every error that is raised
\* and not yet presented, one for every frame.
RECURSIVE PendingErrors(_)
PendingErrors(stack) ==
    IF Len(stack) = 0 THEN 0 ELSE Len(stack[1].errs) + PendingErrors(Tail(stack))
WorkLeft(call) == 3 * PendingErrors(call.stack) + Len(call.stack)

ListedTypes ==
    {i \in 1..Len(IntrospectionTypes(cfg.sid)) :
        Occurrences(last.result.output,
                    "\"name\":" \o Quote(IntrospectionTypes(cfg.sid)[i].v.name.v)) # {}}

\* C25: the types command lists only the types that satisfy its filters: with
\* --filter F only types whose name contains F, letter case ignored, and with
\* --kind K only types whose kind is K.
C25_OnlyFilteredTypes ==
    last.op = "types" /\ last.result.err.isNil =>
       \A i \in ListedTypes :
          LET t == IntrospectionTypes(cfg.sid)[i].v
          IN /\ last.filter # "" =>
                   Occurrences(ToLower(t.name.v), ToLower(last.filter)) # {}
             /\ last.kind # "" => t.kind.v = last.kind

\* C26: the output of the compact formatter contains no object entry whose value is
\* null.
C26_CompactStripsNulls ==
    last.op = "Format" /\ last.format = "compact" /\ last.result.err.isNil =>
       Occurrences(last.result.output, ":null") = {}
====
